---- MODULE Spec2Model ----
(***************************************************************************)
(* Model of the self-query retrieval engine SelfQueryLLM                   *)
(* (src/impl/openwebui-pipelines/app/prototypes/selfquery_llm/             *)
(* selfquery_llm.py): the iteration controller `process`, the schema       *)
(* context loader with its two engine-level caches, the planner invoker,   *)
(* the query validator, the endpoint driver and the scorer.                *)
(*                                                                         *)
(* Text is modelled as a sequence of one-character strings, so that        *)
(* normalisation, keyword matching and the validator's regular expressions *)
(* are computed on characters as the Python code computes them.            *)
(***************************************************************************)
EXTENDS Integers, Sequences, FiniteSets, TLC

\* ------------------------------------------------------------------------
\* Characters and Python string primitives
\* ------------------------------------------------------------------------

UpperChars ==
    <<"A", "B", "C", "D", "E", "F", "G", "H", "I", "J", "K", "L", "M",
      "N", "O", "P", "Q", "R", "S", "T", "U", "V", "W", "X", "Y", "Z">>

LowerChars ==
    <<"a", "b", "c", "d", "e", "f", "g", "h", "i", "j", "k", "l", "m",
      "n", "o", "p", "q", "r", "s", "t", "u", "v", "w", "x", "y", "z">>

DigitChars == {"0", "1", "2", "3", "4", "5", "6", "7", "8", "9"}

\* str.split() without arguments splits on runs of these
Whitespace == {" ", "\t", "\n", "\r", "\f"}

IsSpace(c) == c \in Whitespace

Range(s) == {s[i] : i \in DOMAIN s}

UpperSet == Range(UpperChars)
LowerSet == Range(LowerChars)

\* str.lower() on one character
LowerOf == [c \in UpperSet |-> LowerChars[CHOOSE i \in DOMAIN UpperChars : UpperChars[i] = c]]

LowerChar(c) == IF c \in UpperSet THEN LowerOf[c] ELSE c

\* str.lower()
Lower(s) == [i \in DOMAIN s |-> LowerChar(s[i])]

\* \w of the re module (ASCII part)
WordChars == UpperSet \cup LowerSet \cup DigitChars \cup {"_"}

IsWordChar(c) == c \in WordChars

\* str.split(): the maximal runs of non-whitespace characters, in order
RECURSIVE WordEnd(_, _)
WordEnd(s, i) == IF i = Len(s) \/ IsSpace(s[i + 1]) THEN i ELSE WordEnd(s, i + 1)

RECURSIVE SplitFrom(_, _)
SplitFrom(s, i) ==
    IF i > Len(s) THEN <<>>
    ELSE IF IsSpace(s[i]) THEN SplitFrom(s, i + 1)
    ELSE LET e == WordEnd(s, i)
         IN  <<SubSeq(s, i, e)>> \o SplitFrom(s, e + 1)

Split(s) == SplitFrom(s, 1)

\* sep.join(words)
RECURSIVE Join(_, _)
Join(words, sep) ==
    IF words = <<>> THEN <<>>
    ELSE IF Len(words) = 1 THEN words[1]
    ELSE words[1] \o sep \o Join(Tail(words), sep)

\* str.strip()
Strip(s) ==
    IF \A i \in DOMAIN s : IsSpace(s[i]) THEN <<>>
    ELSE LET lo == CHOOSE i \in DOMAIN s :
                       ~IsSpace(s[i]) /\ \A k \in 1..(i - 1) : IsSpace(s[k])
             hi == CHOOSE i \in DOMAIN s :
                       ~IsSpace(s[i]) /\ \A k \in (i + 1)..Len(s) : IsSpace(s[k])
         IN  SubSeq(s, lo, hi)

\* `sub in s`
Contains(s, sub) ==
    \E i \in 1..(Len(s) - Len(sub) + 1) : SubSeq(s, i, i + Len(sub) - 1) = sub

\* a literal matched at position i under re.IGNORECASE
MatchAt(s, i, w) ==
    /\ i >= 1
    /\ i + Len(w) - 1 <= Len(s)
    /\ \A k \in DOMAIN w : LowerChar(s[i + k - 1]) = LowerChar(w[k])

\* \b between positions i-1 and i (i in 1..Len(s)+1)
WordBoundary(s, i) ==
    LET before == i - 1 >= 1 /\ i - 1 <= Len(s) /\ IsWordChar(s[i - 1])
        after  == i >= 1 /\ i <= Len(s) /\ IsWordChar(s[i])
    IN  before # after

\* the position reached from i by \s*
RECURSIVE SkipSpaces(_, _)
SkipSpaces(s, i) == IF i > Len(s) \/ ~IsSpace(s[i]) THEN i ELSE SkipSpaces(s, i + 1)

\* str(int) for the small non-negative integers the model uses
DigitSeq == <<"0", "1", "2", "3", "4", "5", "6", "7", "8", "9">>

RECURSIVE IntToStr(_)
IntToStr(n) ==
    IF n < 10 THEN <<DigitSeq[n + 1]>>
    ELSE IntToStr(n \div 10) \o <<DigitSeq[(n % 10) + 1]>>

\* s[:n] of Python: a negative n counts from the end
SliceTo(s, n) ==
    IF n >= 0 THEN SubSeq(s, 1, IF n < Len(s) THEN n ELSE Len(s))
    ELSE SubSeq(s, 1, IF Len(s) + n > 0 THEN Len(s) + n ELSE 0)

Max(a, b) == IF a >= b THEN a ELSE b
Min(a, b) == IF a <= b THEN a ELSE b

\* ------------------------------------------------------------------------
\* Query classification, normalisation and validation
\* ------------------------------------------------------------------------

KW_SELECT    == <<"S", "E", "L", "E", "C", "T">>
KW_ASK       == <<"A", "S", "K">>
KW_CONSTRUCT == <<"C", "O", "N", "S", "T", "R", "U", "C", "T">>
KW_DESCRIBE  == <<"D", "E", "S", "C", "R", "I", "B", "E">>

\* QUERY_TYPE_RE = ^\s*(SELECT|ASK|CONSTRUCT|DESCRIBE)\b, IGNORECASE
QueryTypeKeywords ==
    <<[name |-> "SELECT", text |-> KW_SELECT],
      [name |-> "ASK", text |-> KW_ASK],
      [name |-> "CONSTRUCT", text |-> KW_CONSTRUCT],
      [name |-> "DESCRIBE", text |-> KW_DESCRIBE]>>

query_type(query) ==
    LET i == SkipSpaces(query, 1)
        hits == {k \in DOMAIN QueryTypeKeywords :
                    /\ MatchAt(query, i, QueryTypeKeywords[k].text)
                    /\ WordBoundary(query, i + Len(QueryTypeKeywords[k].text))}
    IN  IF hits = {} THEN "UNKNOWN"
        ELSE QueryTypeKeywords[CHOOSE k \in hits : \A m \in hits : k <= m].name

\* the word alternatives of FORBIDDEN_QUERY_RE
ForbiddenWords ==
    {<<"I", "N", "S", "E", "R", "T">>,
     <<"D", "E", "L", "E", "T", "E">>,
     <<"D", "R", "O", "P">>,
     <<"C", "L", "E", "A", "R">>,
     <<"C", "R", "E", "A", "T", "E">>,
     <<"L", "O", "A", "D">>,
     <<"C", "O", "P", "Y">>,
     <<"M", "O", "V", "E">>,
     <<"A", "D", "D">>,
     <<"S", "E", "R", "V", "I", "C", "E">>,
     <<"W", "I", "T", "H">>,
     <<"U", "S", "I", "N", "G">>}

KW_VALUES == <<"V", "A", "L", "U", "E", "S">>
KW_LT_HTTP == <<"<", "h", "t", "t", "p">>

\* the last alternative: VALUES\s*\{\s*<http
MatchValuesHttp(s, i) ==
    /\ MatchAt(s, i, KW_VALUES)
    /\ LET j == SkipSpaces(s, i + Len(KW_VALUES))
       IN  /\ MatchAt(s, j, <<"{">>)
           /\ LET k == SkipSpaces(s, j + 1)
              IN  /\ MatchAt(s, k, KW_LT_HTTP)
                  /\ WordBoundary(s, k + Len(KW_LT_HTTP))

\* FORBIDDEN_QUERY_RE.search(query)
FORBIDDEN_QUERY_RE(query) ==
    \E i \in 1..Len(query) :
        /\ WordBoundary(query, i)
        /\ \/ \E w \in ForbiddenWords :
                 MatchAt(query, i, w) /\ WordBoundary(query, i + Len(w))
           \/ MatchValuesHttp(query, i)

KW_limit == <<"l", "i", "m", "i", "t">>

\* a normalisation that forgets .lower()
normalize_query_keepcase(query) == Strip(Join(Split(query), <<" ">>))

\* " ".join(query.split()).strip().lower()

normalize_query(query) == Lower(Strip(Join(Split(query), <<" ">>)))

\* ------------------------------------------------------------------------
\* Query texts the engine builds
\* ------------------------------------------------------------------------

\* CONTAINS(LCASE(STR(?o)), LCASE('
TXT_FilterLiteral ==
    <<"C", "O", "N", "T", "A", "I", "N", "S", "(", "L", "C", "A", "S", "E", "(", "S", "T", "R", "(",
      "?", "o", ")", ")", ",", " ", "L", "C", "A", "S", "E", "(", "'">>

\* CONTAINS(LCASE(STR(?label)), LCASE('
TXT_FilterLabel ==
    <<"C", "O", "N", "T", "A", "I", "N", "S", "(", "L", "C", "A", "S", "E", "(", "S", "T", "R", "(",
      "?", "l", "a", "b", "e", "l", ")", ")", ",", " ", "L", "C", "A", "S", "E", "(", "'">>

\* CONTAINS(LCASE(REPLACE(STR(?s), '^.*[#/]', '')), LCASE('
TXT_FilterIriS ==
    <<"C", "O", "N", "T", "A", "I", "N", "S", "(", "L", "C", "A", "S", "E", "(", "R", "E", "P", "L",
      "A", "C", "E", "(", "S", "T", "R", "(", "?", "s", ")", ",", " ", "'", "^", ".", "*", "[", "#",
      "/", "]", "'", ",", " ", "'", "'", ")", ")", ",", " ", "L", "C", "A", "S", "E", "(", "'">>

\* CONTAINS(LCASE(REPLACE(STR(?o), '^.*[#/]', '')), LCASE('
TXT_FilterIriO ==
    <<"C", "O", "N", "T", "A", "I", "N", "S", "(", "L", "C", "A", "S", "E", "(", "R", "E", "P", "L",
      "A", "C", "E", "(", "S", "T", "R", "(", "?", "o", ")", ",", " ", "'", "^", ".", "*", "[", "#",
      "/", "]", "'", ",", " ", "'", "'", ")", ")", ",", " ", "L", "C", "A", "S", "E", "(", "'">>

\* CONTAINS(LCASE(REPLACE(STR(?p), '^.*[#/]', '')), LCASE('
TXT_FilterPred ==
    <<"C", "O", "N", "T", "A", "I", "N", "S", "(", "L", "C", "A", "S", "E", "(", "R", "E", "P", "L",
      "A", "C", "E", "(", "S", "T", "R", "(", "?", "p", ")", ",", " ", "'", "^", ".", "*", "[", "#",
      "/", "]", "'", ",", " ", "'", "'", ")", ")", ",", " ", "L", "C", "A", "S", "E", "(", "'">>

\* '))
TXT_FilterEnd ==
    <<"'", ")", ")">>

\*  || 
TXT_Or ==
    <<" ", "|", "|", " ">>

\* SELECT ?s ?p ?o ?label WHERE { ?s ?p ?o . OPTIONAL { ?s <http://www.w3.org/2000/01/rdf-schema#label> ?label } OPTIONAL { ?s <http://www.w3.org/2004/02/skos/core#prefLabel> ?label } FILTER(
TXT_Lexical1Head ==
    <<"S", "E", "L", "E", "C", "T", " ", "?", "s", " ", "?", "p", " ", "?", "o", " ", "?", "l", "a",
      "b", "e", "l", " ", "W", "H", "E", "R", "E", " ", "{", " ", "?", "s", " ", "?", "p", " ", "?",
      "o", " ", ".", " ", "O", "P", "T", "I", "O", "N", "A", "L", " ", "{", " ", "?", "s", " ", "<",
      "h", "t", "t", "p", ":", "/", "/", "w", "w", "w", ".", "w", "3", ".", "o", "r", "g", "/", "2",
      "0", "0", "0", "/", "0", "1", "/", "r", "d", "f", "-", "s", "c", "h", "e", "m", "a", "#", "l",
      "a", "b", "e", "l", ">", " ", "?", "l", "a", "b", "e", "l", " ", "}", " ", "O", "P", "T", "I",
      "O", "N", "A", "L", " ", "{", " ", "?", "s", " ", "<", "h", "t", "t", "p", ":", "/", "/", "w",
      "w", "w", ".", "w", "3", ".", "o", "r", "g", "/", "2", "0", "0", "4", "/", "0", "2", "/", "s",
      "k", "o", "s", "/", "c", "o", "r", "e", "#", "p", "r", "e", "f", "L", "a", "b", "e", "l", ">",
      " ", "?", "l", "a", "b", "e", "l", " ", "}", " ", "F", "I", "L", "T", "E", "R", "(">>

\* SELECT ?s ?label WHERE { ?s a ?type . OPTIONAL { ?s <http://www.w3.org/2000/01/rdf-schema#label> ?label } OPTIONAL { ?s <http://www.w3.org/2004/02/skos/core#prefLabel> ?label } FILTER(
TXT_Lexical2Head ==
    <<"S", "E", "L", "E", "C", "T", " ", "?", "s", " ", "?", "l", "a", "b", "e", "l", " ", "W", "H",
      "E", "R", "E", " ", "{", " ", "?", "s", " ", "a", " ", "?", "t", "y", "p", "e", " ", ".", " ",
      "O", "P", "T", "I", "O", "N", "A", "L", " ", "{", " ", "?", "s", " ", "<", "h", "t", "t", "p",
      ":", "/", "/", "w", "w", "w", ".", "w", "3", ".", "o", "r", "g", "/", "2", "0", "0", "0", "/",
      "0", "1", "/", "r", "d", "f", "-", "s", "c", "h", "e", "m", "a", "#", "l", "a", "b", "e", "l",
      ">", " ", "?", "l", "a", "b", "e", "l", " ", "}", " ", "O", "P", "T", "I", "O", "N", "A", "L",
      " ", "{", " ", "?", "s", " ", "<", "h", "t", "t", "p", ":", "/", "/", "w", "w", "w", ".", "w",
      "3", ".", "o", "r", "g", "/", "2", "0", "0", "4", "/", "0", "2", "/", "s", "k", "o", "s", "/",
      "c", "o", "r", "e", "#", "p", "r", "e", "f", "L", "a", "b", "e", "l", ">", " ", "?", "l", "a",
      "b", "e", "l", " ", "}", " ", "F", "I", "L", "T", "E", "R", "(">>

\* ) } LIMIT 
TXT_LexicalTail ==
    <<")", " ", "}", " ", "L", "I", "M", "I", "T", " ">>

\* SELECT ?s ?p ?o WHERE { ?s ?p ?o . FILTER(CONTAINS(LCASE(STR(?s)), LCASE('
TXT_FallbackHead ==
    <<"S", "E", "L", "E", "C", "T", " ", "?", "s", " ", "?", "p", " ", "?", "o", " ", "W", "H", "E",
      "R", "E", " ", "{", " ", "?", "s", " ", "?", "p", " ", "?", "o", " ", ".", " ", "F", "I", "L",
      "T", "E", "R", "(", "C", "O", "N", "T", "A", "I", "N", "S", "(", "L", "C", "A", "S", "E", "(",
      "S", "T", "R", "(", "?", "s", ")", ")", ",", " ", "L", "C", "A", "S", "E", "(", "'">>

\* ')) || CONTAINS(LCASE(STR(?o)), LCASE('
TXT_FallbackMid ==
    <<"'", ")", ")", " ", "|", "|", " ", "C", "O", "N", "T", "A", "I", "N", "S", "(", "L", "C", "A",
      "S", "E", "(", "S", "T", "R", "(", "?", "o", ")", ")", ",", " ", "L", "C", "A", "S", "E", "(",
      "'">>

\* '))) } LIMIT 
TXT_FallbackTail ==
    <<"'", ")", ")", ")", " ", "}", " ", "L", "I", "M", "I", "T", " ">>

\* CONSTRUCT { ?s ?p ?o } WHERE { ?s ?p ?o }
TXT_TtlAllGraphs ==
    <<"C", "O", "N", "S", "T", "R", "U", "C", "T", " ", "{", " ", "?", "s", " ", "?", "p", " ", "?",
      "o", " ", "}", " ", "W", "H", "E", "R", "E", " ", "{", " ", "?", "s", " ", "?", "p", " ", "?",
      "o", " ", "}">>

\* CONSTRUCT { ?s ?p ?o } WHERE { GRAPH <
TXT_TtlGraphHead ==
    <<"C", "O", "N", "S", "T", "R", "U", "C", "T", " ", "{", " ", "?", "s", " ", "?", "p", " ", "?",
      "o", " ", "}", " ", "W", "H", "E", "R", "E", " ", "{", " ", "G", "R", "A", "P", "H", " ", "<">>

\* > { ?s ?p ?o } }
TXT_TtlGraphTail ==
    <<">", " ", "{", " ", "?", "s", " ", "?", "p", " ", "?", "o", " ", "}", " ", "}">>

\* prefix + newline + body of the first _run_select in get_schema_metadata
TXT_MetaClassesQuery ==
    <<"\n", " ", " ", " ", " ", " ", " ", " ", " ", " ", " ", " ", " ", "P", "R", "E", "F", "I", "X",
      " ", "o", "w", "l", ":", " ", "<", "h", "t", "t", "p", ":", "/", "/", "w", "w", "w", ".", "w",
      "3", ".", "o", "r", "g", "/", "2", "0", "0", "2", "/", "0", "7", "/", "o", "w", "l", "#", ">",
      "\n", " ", " ", " ", " ", " ", " ", " ", " ", " ", " ", " ", " ", "\n", "\n", " ", " ", " ",
      " ", " ", " ", " ", " ", " ", " ", " ", " ", "S", "E", "L", "E", "C", "T", " ", "?", "c", "l",
      "a", "s", "s", " ", "(", "C", "O", "U", "N", "T", "(", "?", "i", "n", "s", "t", "a", "n", "c",
      "e", ")", " ", "A", "S", " ", "?", "i", "n", "s", "t", "a", "n", "c", "e", "C", "o", "u", "n",
      "t", ")", "\n", " ", " ", " ", " ", " ", " ", " ", " ", " ", " ", " ", " ", "W", "H", "E", "R",
      "E", " ", "{", "\n", " ", " ", " ", " ", " ", " ", " ", " ", " ", " ", " ", " ", " ", " ", " ",
      " ", "?", "c", "l", "a", "s", "s", " ", "a", " ", "o", "w", "l", ":", "C", "l", "a", "s", "s",
      " ", ".", "\n", " ", " ", " ", " ", " ", " ", " ", " ", " ", " ", " ", " ", " ", " ", " ", " ",
      "O", "P", "T", "I", "O", "N", "A", "L", " ", "{", " ", "?", "i", "n", "s", "t", "a", "n", "c",
      "e", " ", "a", " ", "?", "c", "l", "a", "s", "s", " ", "}", "\n", " ", " ", " ", " ", " ", " ",
      " ", " ", " ", " ", " ", " ", "}", "\n", " ", " ", " ", " ", " ", " ", " ", " ", " ", " ", " ",
      " ", "G", "R", "O", "U", "P", " ", "B", "Y", " ", "?", "c", "l", "a", "s", "s", "\n", " ", " ",
      " ", " ", " ", " ", " ", " ", " ", " ", " ", " ", "O", "R", "D", "E", "R", " ", "B", "Y", " ",
      "D", "E", "S", "C", "(", "?", "i", "n", "s", "t", "a", "n", "c", "e", "C", "o", "u", "n", "t",
      ")", "\n", " ", " ", " ", " ", " ", " ", " ", " ", " ", " ", " ", " ", "L", "I", "M", "I", "T",
      " ", "2", "5", "\n", " ", " ", " ", " ", " ", " ", " ", " ", " ", " ", " ", " ">>

\* prefix + newline + body of the second _run_select in get_schema_metadata
TXT_MetaPropertiesQuery ==
    <<"\n", " ", " ", " ", " ", " ", " ", " ", " ", " ", " ", " ", " ", "P", "R", "E", "F", "I", "X",
      " ", "r", "d", "f", ":", " ", "<", "h", "t", "t", "p", ":", "/", "/", "w", "w", "w", ".", "w",
      "3", ".", "o", "r", "g", "/", "1", "9", "9", "9", "/", "0", "2", "/", "2", "2", "-", "r", "d",
      "f", "-", "s", "y", "n", "t", "a", "x", "-", "n", "s", "#", ">", "\n", " ", " ", " ", " ", " ",
      " ", " ", " ", " ", " ", " ", " ", "P", "R", "E", "F", "I", "X", " ", "r", "d", "f", "s", ":",
      " ", "<", "h", "t", "t", "p", ":", "/", "/", "w", "w", "w", ".", "w", "3", ".", "o", "r", "g",
      "/", "2", "0", "0", "0", "/", "0", "1", "/", "r", "d", "f", "-", "s", "c", "h", "e", "m", "a",
      "#", ">", "\n", " ", " ", " ", " ", " ", " ", " ", " ", " ", " ", " ", " ", "\n", "\n", " ",
      " ", " ", " ", " ", " ", " ", " ", " ", " ", " ", " ", "S", "E", "L", "E", "C", "T", " ", "?",
      "p", "r", "o", "p", " ", "?", "d", "o", "m", "a", "i", "n", " ", "?", "r", "a", "n", "g", "e",
      "\n", " ", " ", " ", " ", " ", " ", " ", " ", " ", " ", " ", " ", "W", "H", "E", "R", "E", " ",
      "{", "\n", " ", " ", " ", " ", " ", " ", " ", " ", " ", " ", " ", " ", " ", " ", " ", " ", "?",
      "p", "r", "o", "p", " ", "a", " ", "r", "d", "f", ":", "P", "r", "o", "p", "e", "r", "t", "y",
      " ", ".", "\n", " ", " ", " ", " ", " ", " ", " ", " ", " ", " ", " ", " ", " ", " ", " ", " ",
      "O", "P", "T", "I", "O", "N", "A", "L", " ", "{", " ", "?", "p", "r", "o", "p", " ", "r", "d",
      "f", "s", ":", "d", "o", "m", "a", "i", "n", " ", "?", "d", "o", "m", "a", "i", "n", " ", "}",
      "\n", " ", " ", " ", " ", " ", " ", " ", " ", " ", " ", " ", " ", " ", " ", " ", " ", "O", "P",
      "T", "I", "O", "N", "A", "L", " ", "{", " ", "?", "p", "r", "o", "p", " ", "r", "d", "f", "s",
      ":", "r", "a", "n", "g", "e", " ", "?", "r", "a", "n", "g", "e", " ", "}", "\n", " ", " ", " ",
      " ", " ", " ", " ", " ", " ", " ", " ", " ", "}", "\n", " ", " ", " ", " ", " ", " ", " ", " ",
      " ", " ", " ", " ", "L", "I", "M", "I", "T", " ", "3", "0", "\n", " ", " ", " ", " ", " ", " ",
      " ", " ", " ", " ", " ", " ">>


\* ------------------------------------------------------------------------
\* Planner outputs and user questions of the checked scenarios
\* ------------------------------------------------------------------------

\* SELECT ?s WHERE { ?s ?p ?o } LIMIT 10
Q_SelectLimit ==
    <<"S", "E", "L", "E", "C", "T", " ", "?", "s", " ", "W", "H", "E", "R", "E", " ", "{", " ", "?",
      "s", " ", "?", "p", " ", "?", "o", " ", "}", " ", "L", "I", "M", "I", "T", " ", "1", "0">>

\* select ?s where {?s ?p ?o} limit 10
Q_SelectLimitTight ==
    <<"s", "e", "l", "e", "c", "t", " ", "?", "s", " ", "w", "h", "e", "r", "e", " ", "{", "?", "s",
      " ", "?", "p", " ", "?", "o", "}", " ", "l", "i", "m", "i", "t", " ", "1", "0">>

\* select  ?s where { ?s ?p ?o }\tlimit 10
Q_SelectLimitSpaced ==
    <<"s", "e", "l", "e", "c", "t", " ", " ", "?", "s", " ", "w", "h", "e", "r", "e", " ", "{", " ",
      "?", "s", " ", "?", "p", " ", "?", "o", " ", "}", "\t", "l", "i", "m", "i", "t", " ", "1", "0">>

\* SELECT ?s WHERE { ?s ?p ?o }
Q_SelectNoLimit ==
    <<"S", "E", "L", "E", "C", "T", " ", "?", "s", " ", "W", "H", "E", "R", "E", " ", "{", " ", "?",
      "s", " ", "?", "p", " ", "?", "o", " ", "}">>

\* ASK WHERE { ?s ?p ?o }
Q_Ask ==
    <<"A", "S", "K", " ", "W", "H", "E", "R", "E", " ", "{", " ", "?", "s", " ", "?", "p", " ", "?",
      "o", " ", "}">>

\* SELECT ?s WHERE { ?s ?p ?o } LIMIT 10 INSERT DATA {}
Q_Forbidden ==
    <<"S", "E", "L", "E", "C", "T", " ", "?", "s", " ", "W", "H", "E", "R", "E", " ", "{", " ", "?",
      "s", " ", "?", "p", " ", "?", "o", " ", "}", " ", "L", "I", "M", "I", "T", " ", "1", "0", " ",
      "I", "N", "S", "E", "R", "T", " ", "D", "A", "T", "A", " ", "{", "}">>

\* DESCRIBE <http://example.com/Pump>
Q_Describe ==
    <<"D", "E", "S", "C", "R", "I", "B", "E", " ", "<", "h", "t", "t", "p", ":", "/", "/", "e", "x",
      "a", "m", "p", "l", "e", ".", "c", "o", "m", "/", "P", "u", "m", "p", ">">>

\* CONSTRUCT { ?s ?p ?o } WHERE { ?s ?p ?o } LIMIT 5
Q_Construct ==
    <<"C", "O", "N", "S", "T", "R", "U", "C", "T", " ", "{", " ", "?", "s", " ", "?", "p", " ", "?",
      "o", " ", "}", " ", "W", "H", "E", "R", "E", " ", "{", " ", "?", "s", " ", "?", "p", " ", "?",
      "o", " ", "}", " ", "L", "I", "M", "I", "T", " ", "5">>

\* DELETE WHERE { ?s ?p ?o }
Q_Update ==
    <<"D", "E", "L", "E", "T", "E", " ", "W", "H", "E", "R", "E", " ", "{", " ", "?", "s", " ", "?",
      "p", " ", "?", "o", " ", "}">>

\* SELECT ?limitless WHERE { ?s ?p ?limitless }
Q_Limitless ==
    <<"S", "E", "L", "E", "C", "T", " ", "?", "l", "i", "m", "i", "t", "l", "e", "s", "s", " ", "W",
      "H", "E", "R", "E", " ", "{", " ", "?", "s", " ", "?", "p", " ", "?", "l", "i", "m", "i", "t",
      "l", "e", "s", "s", " ", "}">>

\* Pump P-101 pump
UQ_Pump ==
    <<"P", "u", "m", "p", " ", "P", "-", "1", "0", "1", " ", "p", "u", "m", "p">>

\* pump with motor
UQ_With ==
    <<"p", "u", "m", "p", " ", "w", "i", "t", "h", " ", "m", "o", "t", "o", "r">>

\* it's a
UQ_Quote ==
    <<"i", "t", "'", "s", " ", "a">>


\* ------------------------------------------------------------------------
\* Engine configuration (SelfQueryLLM.__init__)
\* ------------------------------------------------------------------------

\* scores are kept in thousandths: 1.0 is ScoreOne, 0.03 is 30
ScoreOne == 1000

\* the floor of max_query_chars in __init__
MinMaxQueryChars == 256

\* _build_endpoint_candidates; an endpoint URL is a sequence of URL parts
RECURSIVE Unique(_, _)
Unique(candidates, seen) ==
    IF candidates = <<>> THEN <<>>
    ELSE IF Head(candidates) \in seen THEN Unique(Tail(candidates), seen)
    ELSE <<Head(candidates)>> \o Unique(Tail(candidates), seen \cup {Head(candidates)})

ReplaceHost(endpoint) ==
    [i \in DOMAIN endpoint |->
        IF endpoint[i] = "host.docker.internal" THEN "172.17.0.1" ELSE endpoint[i]]

_build_endpoint_candidates(endpoint) ==
    LET candidates ==
            IF "host.docker.internal" \in Range(endpoint)
            THEN <<endpoint, ReplaceHost(endpoint)>>
            ELSE <<endpoint>>
    IN  Unique(candidates, {})

\* the constructor without the upper clamp of min_iterations_before_early_stop
SelfQueryLLM_min_unclamped(valves) ==
    LET max_iterations == Max(1, valves.max_iterations)
    IN  [valves EXCEPT
            !.lexical_max_tokens = Max(1, valves.lexical_max_tokens),
            !.lexical_max_candidates = Max(1, valves.lexical_max_candidates),
            !.max_iterations = max_iterations,
            !.min_iterations_before_early_stop =
                Max(1, valves.min_iterations_before_early_stop),
            !.min_score_improvement = Max(0, valves.min_score_improvement),
            !.global_time_budget_sec = Max(1, valves.global_time_budget_sec),
            !.max_query_chars = Max(MinMaxQueryChars, valves.max_query_chars)]

\* the fields __init__ clamps; every other field is stored as given
SelfQueryLLM(valves) ==
    LET max_iterations == Max(1, valves.max_iterations)
    IN  [valves EXCEPT
            !.lexical_max_tokens = Max(1, valves.lexical_max_tokens),
            !.lexical_max_candidates = Max(1, valves.lexical_max_candidates),
            !.max_iterations = max_iterations,
            !.min_iterations_before_early_stop =
                Max(1, Min(valves.min_iterations_before_early_stop, max_iterations)),
            !.min_score_improvement = Max(0, valves.min_score_improvement),
            !.global_time_budget_sec = Max(1, valves.global_time_budget_sec),
            !.max_query_chars = Max(MinMaxQueryChars, valves.max_query_chars)]

\* ------------------------------------------------------------------------
\* Query validator (_validate_query)
\* ------------------------------------------------------------------------

\* the type names in the order the set literal is written, not sorted
DeclaredTypeNames == <<"SELECT", "ASK", "CONSTRUCT", "DESCRIBE">>

\* sorted(allowed_types): the order of the names in the rejection reason
SortedTypeNames == <<"ASK", "CONSTRUCT", "DESCRIBE", "SELECT">>

RECURSIVE JoinNames(_, _)
JoinNames(names, allowed) ==
    IF names = <<>> THEN ""
    ELSE LET rest == JoinNames(Tail(names), allowed)
         IN  IF Head(names) \notin allowed THEN rest
             ELSE IF rest = "" THEN Head(names)
             ELSE Head(names) \o ", " \o rest

allowed_types(self) ==
    {"SELECT", "ASK", "CONSTRUCT"} \cup (IF self.allow_describe THEN {"DESCRIBE"} ELSE {})

\* the validator without its LIMIT check
_validate_query_no_limit(self, query, qtype) ==
    IF Len(query) > self.max_query_chars
    THEN [safe |-> FALSE, reason |-> "Query exceeds max_query_chars"]
    ELSE IF qtype \notin allowed_types(self)
    THEN [safe |-> FALSE,
          reason |-> "Only " \o JoinNames(SortedTypeNames, allowed_types(self)) \o " are allowed"]
    ELSE IF FORBIDDEN_QUERY_RE(query)
    THEN [safe |-> FALSE, reason |-> "Query contains forbidden operation"]
    ELSE [safe |-> TRUE, reason |-> "None"]

_validate_query(self, query, qtype) ==
    IF Len(query) > self.max_query_chars
    THEN [safe |-> FALSE, reason |-> "Query exceeds max_query_chars"]
    ELSE IF qtype \notin allowed_types(self)
    THEN [safe |-> FALSE,
          reason |-> "Only " \o JoinNames(SortedTypeNames, allowed_types(self)) \o " are allowed"]
    ELSE IF FORBIDDEN_QUERY_RE(query)
    THEN [safe |-> FALSE, reason |-> "Query contains forbidden operation"]
    ELSE IF qtype \in {"SELECT", "CONSTRUCT"} /\ ~Contains(Lower(query), KW_limit)
    THEN [safe |-> FALSE, reason |-> "Row/graph returning query must include LIMIT"]
    ELSE [safe |-> TRUE, reason |-> "None"]

\* ------------------------------------------------------------------------
\* Lexical candidate generator and fallback query
\* ------------------------------------------------------------------------

\* USER_QUERY_TOKEN_RE = [a-zA-Z0-9_\-]{2,}
IsUserTokenChar(c) == IsWordChar(c) \/ c = "-"

\* findall: the maximal runs of token characters of length >= 2, in order
RECURSIVE TokenEnd(_, _)
TokenEnd(s, i) ==
    IF i = Len(s) \/ ~IsUserTokenChar(s[i + 1]) THEN i ELSE TokenEnd(s, i + 1)

RECURSIVE UserTokensFrom(_, _)
UserTokensFrom(s, i) ==
    IF i > Len(s) THEN <<>>
    ELSE IF ~IsUserTokenChar(s[i]) THEN UserTokensFrom(s, i + 1)
    ELSE LET e == TokenEnd(s, i)
         IN  (IF e - i + 1 >= 2 THEN <<SubSeq(s, i, e)>> ELSE <<>>)
                 \o UserTokensFrom(s, e + 1)

\* _tokenize_user_query: lowercased, first occurrences only, capped
_tokenize_user_query(self, user_query) ==
    LET found == UserTokensFrom(Lower(user_query), 1)
        tokens == Unique(found, {})
    IN  SubSeq(tokens, 1, Min(Len(tokens), self.lexical_max_tokens))

\* _escape_literal: backslash doubled, then quote escaped
RECURSIVE _escape_literal(_)
_escape_literal(raw) ==
    IF raw = <<>> THEN <<>>
    ELSE (IF Head(raw) = "\\" THEN <<"\\", "\\">>
          ELSE IF Head(raw) = "'" THEN <<"\\", "'">>
          ELSE <<Head(raw)>>) \o _escape_literal(Tail(raw))

TokenFilters(self, token) ==
    LET escaped == _escape_literal(token)
    IN  (IF self.lexical_match_literals
         THEN <<TXT_FilterLiteral \o escaped \o TXT_FilterEnd>> ELSE <<>>)
        \o (IF self.lexical_match_labels
            THEN <<TXT_FilterLabel \o escaped \o TXT_FilterEnd>> ELSE <<>>)
        \o (IF self.lexical_match_iri_local_names
            THEN <<TXT_FilterIriS \o escaped \o TXT_FilterEnd,
                   TXT_FilterIriO \o escaped \o TXT_FilterEnd>> ELSE <<>>)
        \o (IF self.lexical_match_predicates
            THEN <<TXT_FilterPred \o escaped \o TXT_FilterEnd>> ELSE <<>>)

RECURSIVE AllFilters(_, _)
AllFilters(self, tokens) ==
    IF tokens = <<>> THEN <<>>
    ELSE TokenFilters(self, Head(tokens)) \o AllFilters(self, Tail(tokens))

_build_lexical_candidates(self, user_query) ==
    LET tokens == _tokenize_user_query(self, user_query)
        filters == AllFilters(self, tokens)
        where == Join(filters, TXT_Or)
        limit == TXT_LexicalTail \o IntToStr(self.max_rows)
        queries == <<TXT_Lexical1Head \o where \o limit,
                     TXT_Lexical2Head \o where \o limit>>
    IN  IF tokens = <<>> \/ filters = <<>> THEN <<>>
        ELSE SubSeq(queries, 1, Min(Len(queries), self.lexical_max_candidates))

_fallback_query(self, user_query) ==
    LET escaped == _escape_literal(user_query)
    IN  TXT_FallbackHead \o escaped \o TXT_FallbackMid \o escaped
            \o TXT_FallbackTail \o IntToStr(self.max_rows)

\* ------------------------------------------------------------------------
\* Scorer
\* ------------------------------------------------------------------------

\* A JSON payload is [boolean, bindings, describe_score]: boolean is "true",
\* "false" or "absent"; bindings is the sequence of rows, each row given by
\* the number of question tokens its values share with the user question;
\* describe_score is -1 when the key _describe_score is absent.
RECURSIVE SumSeq(_)
SumSeq(s) == IF s = <<>> THEN 0 ELSE Head(s) + SumSeq(Tail(s))

\* the JSON scorer without min(1.0, ...)
_score_json_payload_unbounded(self, payload) ==
    IF payload.bindings = <<>> /\ payload.boolean # "absent"
    THEN [preview |-> <<IF payload.boolean = "true" THEN "ASK result: True"
                                                      ELSE "ASK result: False">>,
          score |-> IF payload.boolean = "true" THEN ScoreOne ELSE ScoreOne \div 5]
    ELSE LET rows == SliceTo(payload.bindings, self.max_rows)
             lexical_hits == SumSeq(rows)
             lines == [i \in DOMAIN rows |-> "{row}"]
             base == ((Len(lines) * ScoreOne) \div Max(1, self.max_rows))
                         + lexical_hits * 30
         IN  [preview |-> IF lines = <<>> THEN <<"No rows returned">> ELSE lines,
              score |-> IF payload.describe_score >= 0
                        THEN Max(base, payload.describe_score) ELSE base]

_score_json_payload(self, payload) ==
    IF payload.bindings = <<>> /\ payload.boolean # "absent"
    THEN [preview |-> <<IF payload.boolean = "true" THEN "ASK result: True"
                                                      ELSE "ASK result: False">>,
          score |-> IF payload.boolean = "true" THEN ScoreOne ELSE ScoreOne \div 5]
    ELSE LET rows == SliceTo(payload.bindings, self.max_rows)
             lexical_hits == SumSeq(rows)
             lines == [i \in DOMAIN rows |-> "{row}"]
             base == Min(ScoreOne,
                         ((Len(lines) * ScoreOne) \div Max(1, self.max_rows))
                             + lexical_hits * 30)
         IN  [preview |-> IF lines = <<>> THEN <<"No rows returned">> ELSE lines,
              score |-> IF payload.describe_score >= 0
                        THEN Max(base, payload.describe_score) ELSE base]

\* A Turtle payload is the sequence of its lines; a line is a record
\* [kind, tokens]: kind is "blank", "prefix" (the line starts with @prefix)
\* or "triple"; tokens is the set of question tokens found in the line.
IsTripleLine(line) == line.kind = "triple"

RECURSIVE SumCard(_)
SumCard(lines) ==
    IF lines = <<>> THEN 0 ELSE Cardinality(Head(lines).tokens) + SumCard(Tail(lines))

\* use_question is FALSE when the caller passes "" as user_query
_score_construct_payload(self, turtle_payload, use_question) ==
    LET kept == SelectSeq(turtle_payload, IsTripleLine)
        lines == SliceTo(kept, self.max_triples)
        lexical_hits == IF use_question THEN SumCard(lines) ELSE 0
    IN  [preview |-> IF lines = <<>> THEN <<"No triples returned">>
                     ELSE [i \in DOMAIN lines |-> "triple"],
         lines |-> lines,
         score |-> Min(ScoreOne,
                       ((Len(lines) * ScoreOne) \div Max(1, self.max_triples))
                           + lexical_hits * 30)]

\* the JSON-shaped result _run_raw_json synthesizes for DESCRIBE: one binding
\* holding the Turtle excerpt, and _describe_score
DescribePayload(self, turtle_payload) ==
    LET scored == _score_construct_payload(self, turtle_payload, FALSE)
    IN  [boolean |-> "absent",
         bindings |-> <<Cardinality(UNION {scored.lines[i].tokens : i \in DOMAIN scored.lines})>>,
         describe_score |-> scored.score,
         malformed |-> FALSE]

\* ------------------------------------------------------------------------
\* Result packer
\* ------------------------------------------------------------------------

\* a sort that puts a record before the records of equal score gathered
\* earlier
RECURSIVE InsertByScoreLaterFirst(_, _)
InsertByScoreLaterFirst(sorted, item) ==
    IF sorted = <<>> THEN <<item>>
    ELSE IF Head(sorted).score > item.score
         THEN <<Head(sorted)>> \o InsertByScoreLaterFirst(Tail(sorted), item)
         ELSE <<item>> \o sorted

\* sorted(evidence, key=lambda item: item.score, reverse=True): a stable
\* sort, records of equal score keep their order
RECURSIVE InsertByScore(_, _)
InsertByScore(sorted, item) ==
    IF sorted = <<>> THEN <<item>>
    ELSE IF Head(sorted).score >= item.score
         THEN <<Head(sorted)>> \o InsertByScore(Tail(sorted), item)
         ELSE <<item>> \o sorted

RECURSIVE SortByScoreDesc(_)
SortByScoreDesc(evidence) ==
    IF evidence = <<>> THEN <<>>
    ELSE InsertByScore(SortByScoreDesc(SubSeq(evidence, 1, Len(evidence) - 1)),
                       evidence[Len(evidence)])

\* the first top_k records in the order they were gathered in
TopKUnsorted(self, evidence) == SliceTo(evidence, self.top_k)

TopK(self, evidence) ==
    LET evidence_sorted == SortByScoreDesc(evidence)
    IN  SliceTo(evidence_sorted, self.top_k)

\* rank_and_pack_context: one block per record, numbered from 1, showing the
\* error when there is one and the preview otherwise
rank_and_pack_context(evidence) ==
    [i \in DOMAIN evidence |->
        [number |-> i,
         query_type |-> evidence[i].query_type,
         query |-> evidence[i].query,
         shows |-> IF evidence[i].error # <<>> THEN "Error" ELSE "Top bindings/subgraph",
         body |-> IF evidence[i].error # <<>> THEN evidence[i].error ELSE evidence[i].preview]]

\* the score of the record gathered last
LastScore(evidence) ==
    IF evidence = <<>> THEN 0 ELSE evidence[Len(evidence)].score

\* max((item.score for item in all_evidence), default=0.0)
RECURSIVE MaxScore(_)
MaxScore(evidence) ==
    IF evidence = <<>> THEN 0 ELSE Max(Head(evidence).score, MaxScore(Tail(evidence)))

\* ------------------------------------------------------------------------
\* State
\* ------------------------------------------------------------------------

\* the process calls made on the one engine instance
Procs == {"call1", "call2"}

\* Python's None is the empty sequence, a value v that may be None is <<v>>
None == <<>>
Some(v) == <<v>>

\* the logical clock stops advancing here
MaxTime == 4

VARIABLES
    pipeline,                \* the Pipeline object: its valves and its LLM client
    pipe,                    \* the locals of the call made to the Pipeline
    engine,                  \* self.model: None, or the fields __init__ sets from the valves
    _schema_metadata_cache,  \* self._schema_metadata_cache
    _schema_ttl_cache,       \* self._schema_ttl_cache
    now,                     \* time.monotonic()
    env,                     \* what the callers, the planner and the endpoint may do
    req,                     \* the locals of each process call
    http                     \* the requests sent to the endpoint, in order

vars ==
    <<pipeline, pipe, engine, _schema_metadata_cache, _schema_ttl_cache, now, env, req, http>>

\* the locals of a call to the Pipeline that has not been made yet
IdlePipe ==
    [pc |-> "idle",                  \* where the caller, or the generator, stands
     entry |-> "none",               \* the method called: pipe or _run_retrieval
     stream |-> FALSE,               \* body["stream"]
     emit_events |-> FALSE,
     emit_text |-> FALSE,
     user_message |-> <<>>,
     progress_callback |-> None,     \* the callback _run_retrieval is given
     worker |-> "none",              \* where the thread running _run_retrieval stands
     run |-> None,                   \* what _run_retrieval returned
     retrieval_done |-> FALSE,       \* the threading.Event
     retrieval_state |-> [retrieval |-> None, retrieval_error |-> None],
     dequeued |-> 0,                 \* how many events progress_queue.get has handed out
     progress |-> None,              \* the event at hand in the loop of the generator
     yielded |-> <<>>,               \* what the generator has yielded, in order
     chunks |-> 0,                   \* chunk_count
     llm_calls |-> <<>>,             \* the final LLM calls: prompt, and what the client does
     result |-> None]                \* what the caller got: a value or an exception

\* the locals of a process call that has not been made yet
IdleRequest ==
    [pc |-> "idle",
     start |-> 0,
     user_query |-> <<>>,
     schema_metadata |-> None,
     schema_ttl |-> None,
     classes |-> None,
     properties |-> None,
     ttl |-> None,
     all_candidates |-> <<>>,
     all_evidence |-> <<>>,
     seen_queries |-> {},
     best_score |-> 0,
     stop_reason |-> "max_iterations",
     iterations_used |-> 0,
     iteration |-> 0,
     plan_start |-> 0,
     loop_context |-> <<>>,
     future |-> None,
     worker |-> None,
     generate_returned |-> 0,
     planner_candidates |-> <<>>,    \* what generate_sparql_candidates returned, by iteration
     merged |-> <<>>,
     index |-> 0,
     evidence |-> <<>>,
     improvement |-> 0,
     progress_callback |-> None,     \* None, or the stages the callback raises at
     prompts |-> <<>>,               \* what each call of client.chat_json is made with
     events |-> <<>>,                \* the events handed to the callback
     total |-> 0,                    \* time.monotonic() - start at process end
     result |-> None]

\* a callback whose exception leaves process
_notify_progress_propagating(r, stage, done, payload) ==
    IF r.progress_callback = None THEN r
    ELSE [r EXCEPT !.events = Append(@, [stage |-> stage, done |-> done,
                                         payload |-> payload,
                                         raised |-> stage \in r.progress_callback[1]]),
                   !.pc = IF stage \in r.progress_callback[1] THEN "raised" ELSE @]

\* a callback that is dropped once it has raised
_notify_progress_until_failure(r, stage, done, payload) ==
    IF r.progress_callback = None THEN r
    ELSE IF \E i \in DOMAIN r.events : r.events[i].raised THEN r
    ELSE [r EXCEPT !.events = Append(@, [stage |-> stage, done |-> done,
                                         payload |-> payload,
                                         raised |-> stage \in r.progress_callback[1]])]

\* _notify_progress: nothing without a callback; otherwise the event is
\* handed to the callback, and what the callback raises is logged and dropped
_notify_progress(r, stage, done, payload) ==
    IF r.progress_callback = None THEN r
    ELSE [r EXCEPT !.events = Append(@, [stage |-> stage, done |-> done,
                                         payload |-> payload,
                                         raised |-> stage \in r.progress_callback[1]])]

\* ------------------------------------------------------------------------
\* Endpoint driver (_run_with_endpoint_retry)
\* ------------------------------------------------------------------------

_endpoint_candidates == _build_endpoint_candidates(engine.endpoint)

\* attempts[i] is what the i-th endpoint candidate does when it is asked
Tried(attempts) ==
    LET oks == {i \in DOMAIN attempts : attempts[i].ok}
    IN  IF oks = {} THEN Len(attempts)
        ELSE CHOOSE i \in oks : \A k \in oks : i <= k

RECURSIVE SumLatency(_, _)
SumLatency(attempts, n) ==
    IF n = 0 THEN 0 ELSE attempts[n].latency + SumLatency(attempts, n - 1)

\* a driver that raises the first error when every candidate fails
_run_with_endpoint_retry_first_error(attempts) ==
    LET n == Tried(attempts)
    IN  [ok |-> attempts[n].ok,
         payload |-> attempts[n].payload,
         error |-> attempts[1].error,
         latency |-> SumLatency(attempts, n)]

\* the outcome of the last candidate tried: the first success, or the last error
_run_with_endpoint_retry(attempts) ==
    LET n == Tried(attempts)
    IN  [ok |-> attempts[n].ok,
         payload |-> attempts[n].payload,
         error |-> attempts[n].error,
         latency |-> SumLatency(attempts, n)]

\* the requests one driver call sends, each with the time it is sent at, the
\* time it takes, what the endpoint answers or raises, and whether its answer
\* is JSON the scorer cannot read
Requests(p, source, query, attempts) ==
    [i \in 1..Tried(attempts) |->
        [proc |-> p, source |-> source, query |-> query,
         endpoint |-> _endpoint_candidates[i], ok |-> attempts[i].ok,
         sent |-> now + SumLatency(attempts, i - 1),
         latency |-> attempts[i].latency,
         payload |-> attempts[i].payload,
         error |-> attempts[i].error,
         malformed |-> /\ source = "candidate"
                       /\ query_type(query) \in {"SELECT", "ASK", "DESCRIBE"}
                       /\ attempts[i].ok
                       /\ attempts[i].payload.malformed]]

AttemptSeqs(choices) == [DOMAIN _endpoint_candidates -> choices]

\* the sequences of attempts that differ in what the driver sees of them
Relevant(choices) ==
    {a \in AttemptSeqs(choices) :
        \A i \in DOMAIN a : i > Tried(a) => a[i] = a[Tried(a)]}

InTime(latency) == now + latency <= MaxTime

\* ------------------------------------------------------------------------
\* process: start and schema context (lines 115-132, 224-277, 472-520, 619-645)
\* ------------------------------------------------------------------------

Start(p) ==
    /\ req[p].pc = "idle"
    /\ p \in env.callers
    /\ env.sequential => \A q \in Procs \ {p} : req[q].pc \in {"idle", "done"}
    /\ \E user_query \in env.questions, progress_callback \in env.callbacks :
          req' = [req EXCEPT ![p] =
                    _notify_progress(
                        [@ EXCEPT !.pc = "get_schema_metadata",
                                  !.start = now,
                                  !.user_query = user_query,
                                  !.progress_callback = progress_callback],
                        "start", FALSE,
                        [max_iterations |-> engine.max_iterations,
                         min_iterations_before_early_stop |->
                             engine.min_iterations_before_early_stop])]
    /\ UNCHANGED <<pipeline, pipe, engine,
                    _schema_metadata_cache, _schema_ttl_cache, now, env, http>>

\* the text json.dumps builds in _load_schema_context after a failed fetch
SchemaWarning(error) == [classes |-> "[]", properties |-> "[]", warning |-> error]

\* the text json.dumps builds in get_schema_metadata
SchemaPayload(classes, properties) ==
    [classes |-> classes, properties |-> properties, warning |-> "absent"]

SchemaMetadataReady(r, schema_metadata) ==
    _notify_progress([r EXCEPT !.pc = "get_schema_ttl",
                               !.schema_metadata = Some(schema_metadata)],
                     "schema_metadata", FALSE, [chars |-> schema_metadata])

\* get_schema_metadata without the cache test
GetSchemaMetadataNoCache(p) ==
    /\ req[p].pc = "get_schema_metadata"
    /\ req' = [req EXCEPT ![p].pc = "run_select_classes"]
    /\ UNCHANGED <<pipeline, pipe, engine,
                    _schema_metadata_cache, _schema_ttl_cache, now, env, http>>

\* get_schema_metadata, the cache test (lines 473-475)
GetSchemaMetadata(p) ==
    /\ req[p].pc = "get_schema_metadata"
    /\ req' = [req EXCEPT ![p] =
                 IF _schema_metadata_cache # None
                 THEN SchemaMetadataReady(@, _schema_metadata_cache[1])
                 ELSE [@ EXCEPT !.pc = "run_select_classes"]]
    /\ UNCHANGED <<pipeline, pipe, engine,
                    _schema_metadata_cache, _schema_ttl_cache, now, env, http>>

\* the first _run_select, the text synthesized for a failure kept as the
\* cached metadata
RunSelectClassesCacheFailure(p) ==
    /\ req[p].pc = "run_select_classes"
    /\ \E attempts \in Relevant(env.select_attempts) :
          LET out == _run_with_endpoint_retry(attempts)
          IN  /\ InTime(out.latency)
              /\ now' = now + out.latency
              /\ http' = http \o Requests(p, "schema_metadata", TXT_MetaClassesQuery, attempts)
              /\ req' = [req EXCEPT ![p] =
                           IF out.ok
                           THEN [@ EXCEPT !.pc = "run_select_properties",
                                          !.classes = Some(out.payload)]
                           ELSE SchemaMetadataReady(@, SchemaWarning(out.error))]
              /\ _schema_metadata_cache' =
                     IF out.ok THEN _schema_metadata_cache
                     ELSE Some(SchemaWarning(out.error))
    /\ UNCHANGED <<pipeline, pipe, engine, _schema_ttl_cache, env>>

\* the first _run_select (lines 479-493)
RunSelectClasses(p) ==
    /\ req[p].pc = "run_select_classes"
    /\ \E attempts \in Relevant(env.select_attempts) :
          LET out == _run_with_endpoint_retry(attempts)
          IN  /\ InTime(out.latency)
              /\ now' = now + out.latency
              /\ http' = http \o Requests(p, "schema_metadata", TXT_MetaClassesQuery, attempts)
              /\ req' = [req EXCEPT ![p] =
                           IF out.ok
                           THEN [@ EXCEPT !.pc = "run_select_properties",
                                          !.classes = Some(out.payload)]
                           ELSE SchemaMetadataReady(@, SchemaWarning(out.error))]
    /\ UNCHANGED <<pipeline, pipe, engine, _schema_metadata_cache, _schema_ttl_cache, env>>

\* the second _run_select (lines 494-508)
RunSelectProperties(p) ==
    /\ req[p].pc = "run_select_properties"
    /\ \E attempts \in Relevant(env.select_attempts) :
          LET out == _run_with_endpoint_retry(attempts)
          IN  /\ InTime(out.latency)
              /\ now' = now + out.latency
              /\ http' = http \o Requests(p, "schema_metadata", TXT_MetaPropertiesQuery, attempts)
              /\ req' = [req EXCEPT ![p] =
                           IF out.ok
                           THEN [@ EXCEPT !.pc = "store_schema_metadata",
                                          !.properties = Some(out.payload)]
                           ELSE SchemaMetadataReady(@, SchemaWarning(out.error))]
    /\ UNCHANGED <<pipeline, pipe, engine, _schema_metadata_cache, _schema_ttl_cache, env>>

\* self._schema_metadata_cache = json.dumps(payload) (line 514)
StoreSchemaMetadata(p) ==
    /\ req[p].pc = "store_schema_metadata"
    /\ _schema_metadata_cache' =
           Some(SchemaPayload(req[p].classes[1], req[p].properties[1]))
    /\ req' = [req EXCEPT ![p].pc = "return_schema_metadata"]
    /\ UNCHANGED <<pipeline, pipe, engine, _schema_ttl_cache, now, env, http>>

\* return self._schema_metadata_cache (line 520), then lines 243-254
ReturnSchemaMetadata(p) ==
    /\ req[p].pc = "return_schema_metadata"
    /\ req' = [req EXCEPT ![p] = SchemaMetadataReady(@, _schema_metadata_cache[1])]
    /\ UNCHANGED <<pipeline, pipe, engine,
                    _schema_metadata_cache, _schema_ttl_cache, now, env, http>>

\* the end of schema loading without the schema_ttl event
SchemaTtlReadySilent(r, schema_ttl) ==
    [r EXCEPT !.pc = "iteration", !.schema_ttl = Some(schema_ttl)]

\* lines 264-277: the TTL text is ready and the schema_ttl event is emitted
SchemaTtlReady(r, schema_ttl) ==
    _notify_progress([r EXCEPT !.pc = "iteration", !.schema_ttl = Some(schema_ttl)],
                     "schema_ttl", FALSE, [chars |-> Len(schema_ttl)])

\* the query get_schema_ttl builds (lines 624-633)
SchemaTtlQuery ==
    IF Strip(engine.schema_graph_uri) = <<>>
    THEN TXT_TtlAllGraphs
    ELSE TXT_TtlGraphHead \o engine.schema_graph_uri \o TXT_TtlGraphTail

\* lines 256-257 and the cache test of get_schema_ttl (lines 620-622)
GetSchemaTtl(p) ==
    /\ req[p].pc = "get_schema_ttl"
    /\ req' = [req EXCEPT ![p] =
                 IF ~engine.include_full_schema_ttl
                 THEN [@ EXCEPT !.pc = "iteration", !.schema_ttl = Some(<<>>)]
                 ELSE IF _schema_ttl_cache # None
                 THEN SchemaTtlReady(@, _schema_ttl_cache[1])
                 ELSE [@ EXCEPT !.pc = "run_construct_ttl"]]
    /\ UNCHANGED <<pipeline, pipe, engine,
                    _schema_metadata_cache, _schema_ttl_cache, now, env, http>>

\* ttl[: self.schema_ttl_max_chars] when the cap is positive (lines 636-642)
TruncateTtl(ttl) ==
    IF engine.schema_ttl_max_chars > 0 /\ Len(ttl) > engine.schema_ttl_max_chars
    THEN SubSeq(ttl, 1, engine.schema_ttl_max_chars)
    ELSE ttl

\* ttl = self._run_construct(query) and the truncation (lines 635-642)
RunConstructTtl(p) ==
    /\ req[p].pc = "run_construct_ttl"
    /\ \E attempts \in Relevant(env.ttl_attempts) :
          LET out == _run_with_endpoint_retry(attempts)
          IN  /\ InTime(out.latency)
              /\ now' = now + out.latency
              /\ http' = http \o Requests(p, "schema_ttl", SchemaTtlQuery, attempts)
              /\ req' = [req EXCEPT ![p] =
                           IF out.ok
                           THEN [@ EXCEPT !.pc = "store_schema_ttl",
                                          !.ttl = Some(TruncateTtl(out.payload))]
                           ELSE SchemaTtlReady(@, <<>>)]
    /\ UNCHANGED <<pipeline, pipe, engine, _schema_metadata_cache, _schema_ttl_cache, env>>

\* self._schema_ttl_cache = ttl (line 644)
StoreSchemaTtl(p) ==
    /\ req[p].pc = "store_schema_ttl"
    /\ _schema_ttl_cache' = Some(req[p].ttl[1])
    /\ req' = [req EXCEPT ![p].pc = "return_schema_ttl"]
    /\ UNCHANGED <<pipeline, pipe, engine, _schema_metadata_cache, now, env, http>>

\* return self._schema_ttl_cache (line 645), then lines 264-277
ReturnSchemaTtl(p) ==
    /\ req[p].pc = "return_schema_ttl"
    /\ req' = [req EXCEPT ![p] = SchemaTtlReady(@, _schema_ttl_cache[1])]
    /\ UNCHANGED <<pipeline, pipe, engine,
                    _schema_metadata_cache, _schema_ttl_cache, now, env, http>>


\* ------------------------------------------------------------------------
\* process: the iteration loop (lines 141-212)
\* ------------------------------------------------------------------------

\* a loop of one turn more
LoopHasNextInclusive(iteration) == iteration <= engine.max_iterations

\* for iteration in range(1, self.max_iterations + 1) (line 141): there is a
\* turn after this one
LoopHasNext(iteration) == iteration < engine.max_iterations

\* the top of the loop body with the budget test elapsed <= budget
IterationStartLate(p) ==
    /\ req[p].pc = "iteration"
    /\ LoopHasNext(req[p].iteration)
    /\ LET iteration == req[p].iteration + 1
           elapsed == now - req[p].start
           started == _notify_progress(
                          [req[p] EXCEPT !.iteration = iteration,
                                         !.iterations_used = iteration],
                          "iteration_start", FALSE,
                          [iteration |-> iteration,
                           max_iterations |-> engine.max_iterations])
       IN  req' = [req EXCEPT ![p] =
                     IF elapsed <= engine.global_time_budget_sec
                     THEN [started EXCEPT !.pc = "plan"]
                     ELSE _notify_progress(
                              [started EXCEPT !.pc = "build",
                                              !.stop_reason = "global_time_budget"],
                              "iteration_stop", FALSE,
                              [iteration |-> iteration,
                               elapsed_sec |-> elapsed,
                               budget_sec |-> engine.global_time_budget_sec])]
    /\ UNCHANGED <<pipeline, pipe, engine,
                    _schema_metadata_cache, _schema_ttl_cache, now, env, http>>

\* the top of the loop body without the call of _global_budget_reached
IterationStartNoBudget(p) ==
    /\ req[p].pc = "iteration"
    /\ LoopHasNext(req[p].iteration)
    /\ req' = [req EXCEPT ![p] =
                 _notify_progress(
                     [@ EXCEPT !.pc = "plan",
                               !.iteration = @ + 1,
                               !.iterations_used = req[p].iteration + 1],
                     "iteration_start", FALSE,
                     [iteration |-> req[p].iteration + 1,
                      max_iterations |-> engine.max_iterations])]
    /\ UNCHANGED <<pipeline, pipe, engine,
                    _schema_metadata_cache, _schema_ttl_cache, now, env, http>>

\* the top of the loop body counting an iteration only once the budget test
\* has let it pass
IterationStartCountAfterBudget(p) ==
    /\ req[p].pc = "iteration"
    /\ LoopHasNext(req[p].iteration)
    /\ LET iteration == req[p].iteration + 1
           elapsed == now - req[p].start
           started == _notify_progress(
                          [req[p] EXCEPT !.iteration = iteration],
                          "iteration_start", FALSE,
                          [iteration |-> iteration,
                           max_iterations |-> engine.max_iterations])
       IN  req' = [req EXCEPT ![p] =
                     IF elapsed < engine.global_time_budget_sec
                     THEN [started EXCEPT !.pc = "plan",
                                          !.iterations_used = iteration]
                     ELSE _notify_progress(
                              [started EXCEPT !.pc = "build",
                                              !.stop_reason = "global_time_budget"],
                              "iteration_stop", FALSE,
                              [iteration |-> iteration,
                               elapsed_sec |-> elapsed,
                               budget_sec |-> engine.global_time_budget_sec])]
    /\ UNCHANGED <<pipeline, pipe, engine,
                    _schema_metadata_cache, _schema_ttl_cache, now, env, http>>

\* top of the loop body and _global_budget_reached (lines 141-152, 279-306)
IterationStart(p) ==
    /\ req[p].pc = "iteration"
    /\ LoopHasNext(req[p].iteration)
    /\ LET iteration == req[p].iteration + 1
           elapsed == now - req[p].start
           started == _notify_progress(
                          [req[p] EXCEPT !.iteration = iteration,
                                         !.iterations_used = iteration],
                          "iteration_start", FALSE,
                          [iteration |-> iteration,
                           max_iterations |-> engine.max_iterations])
       IN  req' = [req EXCEPT ![p] =
                     IF elapsed < engine.global_time_budget_sec
                     THEN [started EXCEPT !.pc = "plan"]
                     ELSE _notify_progress(
                              [started EXCEPT !.pc = "build",
                                              !.stop_reason = "global_time_budget"],
                              "iteration_stop", FALSE,
                              [iteration |-> iteration,
                               elapsed_sec |-> elapsed,
                               budget_sec |-> engine.global_time_budget_sec])]
    /\ UNCHANGED <<pipeline, pipe, engine,
                    _schema_metadata_cache, _schema_ttl_cache, now, env, http>>

\* lines 319-327: the evidence summary handed to the planner
LoopContext(r) ==
    IF r.all_evidence = <<>> THEN <<>>
    ELSE rank_and_pack_context(TopK(engine, r.all_evidence))

\* generate_sparql_candidates up to future.result(timeout=...) (lines 576-600):
\* the worker runs chat_json, the controller waits for it at most
\* planner_timeout_sec
CallPlanner(p) ==
    /\ req[p].pc = "plan"
    /\ \E call \in env.planner_calls :
          LET timed_out == call.latency > engine.planner_timeout_sec
              waited == IF timed_out THEN engine.planner_timeout_sec ELSE call.latency
          IN  /\ InTime(call.latency)
              /\ now' = now + waited
              /\ req' = [req EXCEPT ![p] =
                           [@ EXCEPT !.pc = "pool_exit",
                                     !.plan_start = now,
                                     !.loop_context = LoopContext(req[p]),
                                     !.prompts = Append(@,
                                         [user_query |-> req[p].user_query,
                                          schema_metadata |-> req[p].schema_metadata,
                                          schema_ttl |-> req[p].schema_ttl,
                                          loop_context |-> LoopContext(req[p]),
                                          iteration |-> req[p].iteration]),
                                     !.future = Some([state |-> IF timed_out THEN "timeout"
                                                                ELSE call.state,
                                                      content |-> IF timed_out THEN <<>>
                                                                  ELSE call.content]),
                                     !.worker = Some([running |-> timed_out,
                                                      finish |-> now + call.latency])]]
    /\ UNCHANGED <<pipeline, pipe, engine,
                    _schema_metadata_cache, _schema_ttl_cache, env, http>>

NonEmpty(text) == text # <<>>

\* _extract_queries on a parsed object whose key queries holds these items
_extract_queries(content) ==
    SelectSeq([i \in DOMAIN content |-> Strip(content[i])], NonEmpty)

\* generate_sparql_candidates falling back in every iteration
PlannerCandidatesAlwaysFallback(r) ==
    LET fallback == <<_fallback_query(engine, r.user_query)>>
        parsed == _extract_queries(r.future[1].content)
    IN  IF r.future[1].state # "returned" THEN fallback
        ELSE IF parsed # <<>>
        THEN SliceTo(parsed, engine.query_candidates)
        ELSE fallback

\* lines 601-617: what generate_sparql_candidates returns
PlannerCandidates(r) ==
    LET fallback == IF r.iteration = 1
                    THEN <<_fallback_query(engine, r.user_query)>> ELSE <<>>
        parsed == _extract_queries(r.future[1].content)
    IN  IF r.future[1].state # "returned" THEN fallback
        ELSE IF parsed # <<>>
        THEN SliceTo(parsed, engine.query_candidates)
        ELSE fallback

\* leaving `with ThreadPoolExecutor(...) as pool` (line 599): __exit__ calls
\* shutdown(wait=True), which returns when the worker has finished
PoolShutdown(p) ==
    /\ req[p].pc = "pool_exit"
    /\ now' = Max(now, req[p].worker[1].finish)
    /\ req' = [req EXCEPT ![p] =
                 [@ EXCEPT !.pc = "merge",
                           !.worker = Some([@[1] EXCEPT !.running = FALSE]),
                           !.generate_returned = now',
                           !.planner_candidates = Append(@, PlannerCandidates(req[p]))]]
    /\ UNCHANGED <<pipeline, pipe, engine,
                    _schema_metadata_cache, _schema_ttl_cache, env, http>>

\* the loops without seen_queries.add(normalized)
RECURSIVE MergeNewNoAdd(_, _)
MergeNewNoAdd(queries, seen_queries) ==
    IF queries = <<>> THEN [merged |-> <<>>, seen_queries |-> seen_queries]
    ELSE LET rest == MergeNewNoAdd(Tail(queries), seen_queries)
         IN  IF normalize_query(Head(queries)) \in seen_queries THEN rest
             ELSE [merged |-> <<Head(queries)>> \o rest.merged,
                   seen_queries |-> rest.seen_queries]

\* the two loops of lines 332-344 over planner then lexical candidates
RECURSIVE MergeNew(_, _)
MergeNew(queries, seen_queries) ==
    IF queries = <<>> THEN [merged |-> <<>>, seen_queries |-> seen_queries]
    ELSE LET normalized == normalize_query(Head(queries))
         IN  IF normalized \in seen_queries
             THEN MergeNew(Tail(queries), seen_queries)
             ELSE LET rest == MergeNew(Tail(queries), seen_queries \cup {normalized})
                  IN  [merged |-> <<Head(queries)>> \o rest.merged,
                       seen_queries |-> rest.seen_queries]

\* _short: whitespace runs collapsed, cut after max_len characters
_short(value, max_len) ==
    LET compact == Join(Split(value), <<" ">>)
    IN  IF Len(compact) <= max_len THEN compact
        ELSE SubSeq(compact, 1, max_len) \o <<".", ".", ".">>

PreviewChars == 120

\* [self._short(query, max_len=120) for query in merged[:2]]
QueryPreviews(merged) ==
    [i \in 1..Min(Len(merged), 2) |-> _short(merged[i], PreviewChars)]

\* the merge with one seen-set for all the calls, as if seen_queries were a
\* field of the engine
PlanMergeSharedSeen(p) ==
    /\ req[p].pc = "merge"
    /\ LET r == req[p]
           lexical_candidates ==
               IF engine.enable_lexical_search
               THEN _build_lexical_candidates(engine, r.user_query) ELSE <<>>
           planner_candidates == r.planner_candidates[r.iteration]
           shared == UNION {req[q].seen_queries : q \in Procs}
           new == MergeNew(planner_candidates \o lexical_candidates, shared)
           planned == _notify_progress(
                          [r EXCEPT !.merged = new.merged,
                                    !.seen_queries = new.seen_queries,
                                    !.all_candidates = @ \o new.merged,
                                    !.index = 1,
                                    !.evidence = <<>>],
                          "iteration_candidates", FALSE,
                          [iteration |-> r.iteration,
                           planner_candidates |-> Len(planner_candidates),
                           lexical_candidates |-> Len(lexical_candidates),
                           new_candidates |-> Len(new.merged),
                           query_previews |-> QueryPreviews(new.merged)])
       IN  req' = [req EXCEPT ![p] =
                     IF new.merged = <<>>
                     THEN _notify_progress(
                              [planned EXCEPT !.pc = "build",
                                              !.stop_reason = "no_new_candidates"],
                              "iteration_stop", FALSE, [iteration |-> r.iteration])
                     ELSE [planned EXCEPT !.pc = "execute"]]
    /\ UNCHANGED <<pipeline, pipe, engine,
                    _schema_metadata_cache, _schema_ttl_cache, now, env, http>>

\* the merge that does not enter the lexical candidates into seen_queries
PlanMergeLexicalUnseen(p) ==
    /\ req[p].pc = "merge"
    /\ LET r == req[p]
           lexical_candidates ==
               IF engine.enable_lexical_search
               THEN _build_lexical_candidates(engine, r.user_query) ELSE <<>>
           planner_candidates == r.planner_candidates[r.iteration]
           planner_new == MergeNew(planner_candidates, r.seen_queries)
           lexical_new == MergeNew(lexical_candidates, planner_new.seen_queries)
           merged == planner_new.merged \o lexical_new.merged
           planned == _notify_progress(
                          [r EXCEPT !.merged = merged,
                                    !.seen_queries = planner_new.seen_queries,
                                    !.all_candidates = @ \o merged,
                                    !.index = 1,
                                    !.evidence = <<>>],
                          "iteration_candidates", FALSE,
                          [iteration |-> r.iteration,
                           planner_candidates |-> Len(planner_candidates),
                           lexical_candidates |-> Len(lexical_candidates),
                           new_candidates |-> Len(merged),
                           query_previews |-> QueryPreviews(merged)])
       IN  req' = [req EXCEPT ![p] =
                     IF merged = <<>>
                     THEN _notify_progress(
                              [planned EXCEPT !.pc = "build",
                                              !.stop_reason = "no_new_candidates"],
                              "iteration_stop", FALSE, [iteration |-> r.iteration])
                     ELSE [planned EXCEPT !.pc = "execute"]]
    /\ UNCHANGED <<pipeline, pipe, engine,
                    _schema_metadata_cache, _schema_ttl_cache, now, env, http>>

\* the merge that hands an empty batch on to execution and evaluation
PlanMergeThenExecute(p) ==
    /\ req[p].pc = "merge"
    /\ LET r == req[p]
           lexical_candidates ==
               IF engine.enable_lexical_search
               THEN _build_lexical_candidates(engine, r.user_query) ELSE <<>>
           planner_candidates == r.planner_candidates[r.iteration]
           new == MergeNew(planner_candidates \o lexical_candidates, r.seen_queries)
       IN  req' = [req EXCEPT ![p] =
                     _notify_progress(
                         [r EXCEPT !.pc = "execute",
                                   !.merged = new.merged,
                                   !.seen_queries = new.seen_queries,
                                   !.all_candidates = @ \o new.merged,
                                   !.index = 1,
                                   !.evidence = <<>>],
                         "iteration_candidates", FALSE,
                         [iteration |-> r.iteration,
                          planner_candidates |-> Len(planner_candidates),
                          lexical_candidates |-> Len(lexical_candidates),
                          new_candidates |-> Len(new.merged),
                          query_previews |-> QueryPreviews(new.merged)])]
    /\ UNCHANGED <<pipeline, pipe, engine,
                    _schema_metadata_cache, _schema_ttl_cache, now, env, http>>

\* lines 330-354 of _plan_iteration_candidates and lines 164-188 of process
PlanMerge(p) ==
    /\ req[p].pc = "merge"
    /\ LET r == req[p]
           lexical_candidates ==
               IF engine.enable_lexical_search
               THEN _build_lexical_candidates(engine, r.user_query) ELSE <<>>
           planner_candidates == r.planner_candidates[r.iteration]
           new == MergeNew(planner_candidates \o lexical_candidates, r.seen_queries)
           planned == _notify_progress(
                          [r EXCEPT !.merged = new.merged,
                                    !.seen_queries = new.seen_queries,
                                    !.all_candidates = @ \o new.merged,
                                    !.index = 1,
                                    !.evidence = <<>>],
                          "iteration_candidates", FALSE,
                          [iteration |-> r.iteration,
                           planner_candidates |-> Len(planner_candidates),
                           lexical_candidates |-> Len(lexical_candidates),
                           new_candidates |-> Len(new.merged),
                           query_previews |-> QueryPreviews(new.merged)])
       IN  req' = [req EXCEPT ![p] =
                     IF new.merged = <<>>
                     THEN _notify_progress(
                              [planned EXCEPT !.pc = "build",
                                              !.stop_reason = "no_new_candidates"],
                              "iteration_stop", FALSE, [iteration |-> r.iteration])
                     ELSE [planned EXCEPT !.pc = "execute"]]
    /\ UNCHANGED <<pipeline, pipe, engine,
                    _schema_metadata_cache, _schema_ttl_cache, now, env, http>>

QueryEvidence(query, qtype, preview, score, error) ==
    [query |-> query, query_type |-> qtype, preview |-> preview,
     score |-> score, error |-> error]

\* the evidence that scores whatever the driver returned, failed or not
ExecutedKeepPreview(query, qtype, out) ==
    LET scored == IF qtype \in {"SELECT", "ASK", "DESCRIBE"}
                  THEN _score_json_payload(engine, out.payload)
                  ELSE _score_construct_payload(engine, out.payload, TRUE)
    IN  QueryEvidence(query, qtype, scored.preview, scored.score,
                      IF ~out.ok THEN Some(out.error) ELSE None)

\* lines 678-711: the evidence for an accepted candidate, given what the
\* driver returned for it
Executed(query, qtype, out) ==
    LET scored == IF qtype \in {"SELECT", "ASK", "DESCRIBE"}
                  THEN _score_json_payload(engine, out.payload)
                  ELSE _score_construct_payload(engine, out.payload, TRUE)
    IN  IF ~out.ok THEN QueryEvidence(query, qtype, <<>>, 0, Some(out.error))
        ELSE IF qtype \in {"SELECT", "ASK", "DESCRIBE"} /\ out.payload.malformed
        THEN QueryEvidence(query, qtype, <<>>, 0, Some("AttributeError"))
        ELSE QueryEvidence(query, qtype, scored.preview, scored.score, None)

\* what the endpoint candidates may do for a query of this type; for DESCRIBE
\* the runner turns the Turtle text into the JSON-shaped result (lines 828-847)
AttemptsFor(qtype) ==
    IF qtype = "DESCRIBE"
    THEN {[a EXCEPT !.payload = DescribePayload(engine, a.payload)] : a \in env.turtle_attempts}
    ELSE IF qtype \in {"SELECT", "ASK"} THEN env.json_attempts
    ELSE env.turtle_attempts

\* the loop turn that drops a rejected candidate without a record
ExecuteCandidateDropRejected(p) ==
    /\ req[p].pc = "execute"
    /\ req[p].index <= Len(req[p].merged)
    /\ LET query == req[p].merged[req[p].index]
           qtype == query_type(query)
           checked == _validate_query(engine, query, qtype)
       IN  IF ~checked.safe
           THEN /\ req' = [req EXCEPT ![p].index = @ + 1]
                /\ UNCHANGED <<now, http>>
           ELSE \E attempts \in Relevant(AttemptsFor(qtype)) :
                   LET out == _run_with_endpoint_retry(attempts)
                   IN  /\ InTime(out.latency)
                       /\ now' = now + out.latency
                       /\ http' = http \o Requests(p, "candidate", query, attempts)
                       /\ req' = [req EXCEPT ![p] =
                                    [@ EXCEPT !.index = @ + 1,
                                              !.evidence = Append(@,
                                                  Executed(query, qtype, out))]]
    /\ UNCHANGED <<pipeline, pipe, engine, _schema_metadata_cache, _schema_ttl_cache, env>>

\* one turn of the loop of execute_sparql_batch (lines 650-711)
ExecuteCandidate(p) ==
    /\ req[p].pc = "execute"
    /\ req[p].index <= Len(req[p].merged)
    /\ LET query == req[p].merged[req[p].index]
           qtype == query_type(query)
           checked == _validate_query(engine, query, qtype)
       IN  IF ~checked.safe
           THEN /\ req' = [req EXCEPT ![p] =
                             [@ EXCEPT !.index = @ + 1,
                                       !.evidence = Append(@,
                                           QueryEvidence(query, qtype, <<>>, 0,
                                                         Some(checked.reason)))]]
                /\ UNCHANGED <<now, http>>
           ELSE \E attempts \in Relevant(AttemptsFor(qtype)) :
                   LET out == _run_with_endpoint_retry(attempts)
                   IN  /\ InTime(out.latency)
                       /\ now' = now + out.latency
                       /\ http' = http \o Requests(p, "candidate", query, attempts)
                       /\ req' = [req EXCEPT ![p] =
                                    [@ EXCEPT !.index = @ + 1,
                                              !.evidence = Append(@,
                                                  Executed(query, qtype, out))]]
    /\ UNCHANGED <<pipeline, pipe, engine, _schema_metadata_cache, _schema_ttl_cache, env>>

\* the end of a batch that gives up the loop when a query has failed
IterationExecutedAbortOnFailure(p) ==
    /\ req[p].pc = "execute"
    /\ req[p].index > Len(req[p].merged)
    /\ req' = [req EXCEPT ![p] =
                 _notify_progress(
                     [@ EXCEPT !.pc = IF \E i \in DOMAIN req[p].evidence :
                                            req[p].evidence[i].error # None
                                      THEN "build" ELSE "evaluate",
                               !.all_evidence = @ \o req[p].evidence],
                     "iteration_executed", FALSE,
                     [iteration |-> req[p].iteration,
                      executed_queries |-> Len(req[p].merged),
                      evidence_count |-> Len(req[p].evidence)])]
    /\ UNCHANGED <<pipeline, pipe, engine,
                    _schema_metadata_cache, _schema_ttl_cache, now, env, http>>

\* the end of a batch that keeps the records of the last batch only
IterationExecutedKeepLast(p) ==
    /\ req[p].pc = "execute"
    /\ req[p].index > Len(req[p].merged)
    /\ req' = [req EXCEPT ![p] =
                 _notify_progress(
                     [@ EXCEPT !.pc = "evaluate",
                               !.all_evidence = req[p].evidence],
                     "iteration_executed", FALSE,
                     [iteration |-> req[p].iteration,
                      executed_queries |-> Len(req[p].merged),
                      evidence_count |-> Len(req[p].evidence)])]
    /\ UNCHANGED <<pipeline, pipe, engine,
                    _schema_metadata_cache, _schema_ttl_cache, now, env, http>>

\* the batch is done: lines 190-202
IterationExecuted(p) ==
    /\ req[p].pc = "execute"
    /\ req[p].index > Len(req[p].merged)
    /\ req' = [req EXCEPT ![p] =
                 _notify_progress(
                     [@ EXCEPT !.pc = "evaluate",
                               !.all_evidence = @ \o req[p].evidence],
                     "iteration_executed", FALSE,
                     [iteration |-> req[p].iteration,
                      executed_queries |-> Len(req[p].merged),
                      evidence_count |-> Len(req[p].evidence)])]
    /\ UNCHANGED <<pipeline, pipe, engine,
                    _schema_metadata_cache, _schema_ttl_cache, now, env, http>>

\* the condition without its test of max_iterations
should_stop_at_last(iteration, improvement) ==
    /\ iteration >= engine.min_iterations_before_early_stop
    /\ improvement < engine.min_score_improvement

\* the condition with <= in place of <
should_stop_inclusive(iteration, improvement) ==
    /\ iteration < engine.max_iterations
    /\ iteration >= engine.min_iterations_before_early_stop
    /\ improvement <= engine.min_score_improvement

\* the condition of _evaluate_early_stop (lines 376-381)
should_stop(iteration, improvement) ==
    /\ iteration < engine.max_iterations
    /\ iteration >= engine.min_iterations_before_early_stop
    /\ improvement < engine.min_score_improvement

\* the evaluation that stops the loop without an iteration_stop event
EvaluateEarlyStopSilent(p) ==
    /\ req[p].pc = "evaluate"
    /\ LET r == req[p]
           next_best_score == MaxScore(r.all_evidence)
           improvement == next_best_score - r.best_score
           scored == [r EXCEPT !.best_score = next_best_score,
                               !.improvement = improvement]
       IN  req' = [req EXCEPT ![p] =
                     IF should_stop(r.iteration, improvement)
                     THEN [scored EXCEPT !.pc = "build",
                                         !.stop_reason = "no_meaningful_improvement"]
                     ELSE IF LoopHasNext(r.iteration)
                     THEN [scored EXCEPT !.pc = "iteration"]
                     ELSE [scored EXCEPT !.pc = "build"]]
    /\ UNCHANGED <<pipeline, pipe, engine,
                    _schema_metadata_cache, _schema_ttl_cache, now, env, http>>

\* _evaluate_early_stop and lines 204-212; the for loop ends after
\* iteration max_iterations
EvaluateEarlyStop(p) ==
    /\ req[p].pc = "evaluate"
    /\ LET r == req[p]
           next_best_score == MaxScore(r.all_evidence)
           improvement == next_best_score - r.best_score
           scored == [r EXCEPT !.best_score = next_best_score,
                               !.improvement = improvement]
       IN  req' = [req EXCEPT ![p] =
                     IF should_stop(r.iteration, improvement)
                     THEN _notify_progress(
                              [scored EXCEPT !.pc = "build",
                                             !.stop_reason = "no_meaningful_improvement"],
                              "iteration_stop", FALSE,
                              [iteration |-> r.iteration,
                               improvement |-> improvement,
                               minimum_improvement |-> engine.min_score_improvement])
                     ELSE IF LoopHasNext(r.iteration)
                     THEN [scored EXCEPT !.pc = "iteration"]
                     ELSE [scored EXCEPT !.pc = "build"]]
    /\ UNCHANGED <<pipeline, pipe, engine,
                    _schema_metadata_cache, _schema_ttl_cache, now, env, http>>

\* a result packer that reports the number of all the records gathered
BuildProcessResultCountAll(p) ==
    /\ req[p].pc = "build"
    /\ LET r == req[p]
           best == TopK(engine, r.all_evidence)
       IN  req' = [req EXCEPT ![p] =
                     _notify_progress(
                         [r EXCEPT !.pc = "done",
                                   !.total = now - r.start,
                                   !.result = Some(
                                       [schema_metadata |-> r.schema_metadata[1],
                                        queries |-> r.all_candidates,
                                        evidence |-> best,
                                        context |-> rank_and_pack_context(best),
                                        iterations_used |-> r.iterations_used,
                                        stop_reason |-> r.stop_reason])],
                         "complete", TRUE,
                         [iterations_used |-> r.iterations_used,
                          stop_reason |-> r.stop_reason,
                          selected_evidence |-> Len(r.all_evidence)])]
    /\ UNCHANGED <<pipeline, pipe, engine,
                    _schema_metadata_cache, _schema_ttl_cache, now, env, http>>

\* _build_process_result (lines 402-449)
BuildProcessResult(p) ==
    /\ req[p].pc = "build"
    /\ LET r == req[p]
           best == TopK(engine, r.all_evidence)
       IN  req' = [req EXCEPT ![p] =
                     _notify_progress(
                         [r EXCEPT !.pc = "done",
                                   !.total = now - r.start,
                                   !.result = Some(
                                       [schema_metadata |-> r.schema_metadata[1],
                                        queries |-> r.all_candidates,
                                        evidence |-> best,
                                        context |-> rank_and_pack_context(best),
                                        iterations_used |-> r.iterations_used,
                                        stop_reason |-> r.stop_reason])],
                         "complete", TRUE,
                         [iterations_used |-> r.iterations_used,
                          stop_reason |-> r.stop_reason,
                          selected_evidence |-> Len(best)])]
    /\ UNCHANGED <<pipeline, pipe, engine,
                    _schema_metadata_cache, _schema_ttl_cache, now, env, http>>

Next ==
    \E p \in Procs :
        \/ Start(p)
        \/ GetSchemaMetadata(p)
        \/ RunSelectClasses(p)
        \/ RunSelectProperties(p)
        \/ StoreSchemaMetadata(p)
        \/ ReturnSchemaMetadata(p)
        \/ GetSchemaTtl(p)
        \/ RunConstructTtl(p)
        \/ StoreSchemaTtl(p)
        \/ ReturnSchemaTtl(p)
        \/ IterationStart(p)
        \/ CallPlanner(p)
        \/ PoolShutdown(p)
        \/ PlanMerge(p)
        \/ ExecuteCandidate(p)
        \/ IterationExecuted(p)
        \/ EvaluateEarlyStop(p)
        \/ BuildProcessResult(p)


\* ------------------------------------------------------------------------
\* Configurations and environments
\* ------------------------------------------------------------------------

\* the valves the pipeline hands to __init__; scores in thousandths
BaseValves ==
    [endpoint |-> <<"http://", "graphdb", ":7200/x">>,
     top_k |-> 3,
     query_candidates |-> 2,
     timeout_sec |-> 20,
     max_rows |-> 10,
     max_triples |-> 5,
     planner_timeout_sec |-> 1,
     planner_max_tokens |-> -1,
     schema_graph_uri |-> <<>>,
     include_full_schema_ttl |-> FALSE,
     schema_ttl_max_chars |-> -1,
     allow_describe |-> TRUE,
     enable_lexical_search |-> FALSE,
     lexical_match_literals |-> TRUE,
     lexical_match_labels |-> FALSE,
     lexical_match_iri_local_names |-> FALSE,
     lexical_match_predicates |-> FALSE,
     lexical_max_tokens |-> 1,
     lexical_max_candidates |-> 2,
     max_iterations |-> 3,
     min_iterations_before_early_stop |-> 3,
     min_score_improvement |-> 50,
     global_time_budget_sec |-> 3,
     max_query_chars |-> 8000]

\* a JSON result with these rows, an ASK result, a Turtle text
Bindings(rows) ==
    [boolean |-> "absent", bindings |-> rows, describe_score |-> -1, malformed |-> FALSE]

Boolean(answer) ==
    [boolean |-> answer, bindings |-> <<>>, describe_score |-> -1, malformed |-> FALSE]

Malformed == [Bindings(<<0>>) EXCEPT !.malformed = TRUE]

Triple(tokens) == [kind |-> "triple", tokens |-> tokens]
PrefixLine == [kind |-> "prefix", tokens |-> {}]
BlankLine == [kind |-> "blank", tokens |-> {}]

\* what one endpoint candidate does with a request
Ok(payload, latency) ==
    [ok |-> TRUE, payload |-> payload, error |-> "", latency |-> latency]

Fail(like, error, latency) ==
    [ok |-> FALSE, payload |-> like, error |-> error, latency |-> latency]

\* what the planner's chat_json does
Returned(content, latency) == [state |-> "returned", content |-> content, latency |-> latency]
Raised(latency) == [state |-> "raised", content |-> <<>>, latency |-> latency]

BaseEnv ==
    [callers |-> {"call1"},
     sequential |-> TRUE,
     questions |-> {UQ_Pump},
     callbacks |-> {Some({})},
     planner_calls |-> {Returned(<<Q_SelectLimit>>, 0)},
     json_attempts |-> {Ok(Bindings(<<0, 0>>), 0)},
     turtle_attempts |-> {Ok(<<PrefixLine, Triple({})>>, 0)},
     select_attempts |-> {Ok("A", 0)},
     ttl_attempts |-> {Ok(<<"t", "t", "l">>, 0)}]

\* ------------------------------------------------------------------------
\* The Pipeline frontend (pipelines/selfquery_llm.py)
\* ------------------------------------------------------------------------

\* the keyword arguments _update builds the engine with (lines 106-131):
\* endpoint is SPARQL_BASE_URL
EngineArguments(valves) == [f \in DOMAIN BaseValves |-> valves[f]]

\* Pipeline.Valves: the arguments of the engine and the settings of the
\* frontend
Valves(v, llm_base_url, progress_output_mode) ==
    [f \in DOMAIN v \cup {"LLM_BASE_URL", "progress_output_mode"} |->
        IF f = "LLM_BASE_URL" THEN llm_base_url
        ELSE IF f = "progress_output_mode" THEN progress_output_mode
        ELSE v[f]]

\* the process call the Pipeline makes
Caller == "call1"

MODE_events == <<"e", "v", "e", "n", "t", "s">>
MODE_text == <<"t", "e", "x", "t">>
MODE_both == <<"b", "o", "t", "h">>

\* what a caller gets from a method: a value it returns or an exception it
\* raises
Value(kind, value) == [kind |-> kind, value |-> value]
Exception(text) == [kind |-> "exception", value |-> text]

\* _resolve_progress_mode: (emit_events, emit_text)
_resolve_progress_mode(valves) ==
    LET stripped == Lower(Strip(valves.progress_output_mode))
        progress_mode == IF stripped \in {MODE_events, MODE_text, MODE_both}
                         THEN stripped ELSE MODE_events
    IN  [emit_events |-> progress_mode \in {MODE_events, MODE_both},
         emit_text |-> progress_mode \in {MODE_text, MODE_both}]

\* _build_status_data: the fields of the status the generator goes by
_build_status_data(progress) ==
    [stage |-> progress.stage,
     done |-> progress.done,
     hidden |-> progress.stage \in {"start", "schema_metadata", "schema_ttl"},
     error |-> progress.stage = "error"]

\* _format_progress_line: the empty text for a hidden stage
_format_progress_line(progress) ==
    IF _build_status_data(progress).hidden THEN <<>>
    ELSE <<"[retrieval] ", progress.stage>>

\* _build_prompt_with_retrieval: the evidence block and the question of the
\* message; retrieval is None for the empty object and retrieval_error is
\* None or holds the text of the error, which may be empty
_build_prompt_with_retrieval(retrieval, retrieval_error, user_message) ==
    LET context == IF retrieval # None THEN retrieval[1].context ELSE <<>>
    IN  [evidence |->
            IF retrieval_error # None /\ retrieval_error # Some("")
            THEN "SPARQL RETRIEVAL UNAVAILABLE"
            ELSE IF context # <<>> THEN "context" ELSE "NO RELEVANT EVIDENCE",
         error |-> IF retrieval_error # None THEN retrieval_error[1] ELSE "",
         context |-> context,
         user_question |-> user_message]

\* the events on_progress has put and progress_queue.get has not handed out
progress_queue ==
    SubSeq(req[Caller].events, pipe.dequeued + 1, Len(req[Caller].events))

\* _update, as on_startup and on_valves_updated call it once self.valves is
\* set: with an empty URL it returns at once and leaves self.model and
\* self.client as they are
_update ==
    /\ pipe.pc = "idle"
    /\ \E valves \in env.valves :
          IF valves.endpoint = <<>> \/ valves.LLM_BASE_URL = ""
          THEN /\ pipeline' = [pipeline EXCEPT !.valves = valves]
               /\ UNCHANGED <<engine, _schema_metadata_cache, _schema_ttl_cache>>
          ELSE /\ pipeline' = [pipeline EXCEPT !.valves = valves,
                                               !.client = Some(valves.LLM_BASE_URL)]
               /\ engine' = SelfQueryLLM(EngineArguments(valves))
               /\ _schema_metadata_cache' = None
               /\ _schema_ttl_cache' = None
    /\ UNCHANGED <<pipe, now, env, req, http>>

\* pipe up to the start of the retrieval (lines 307-327, 404-418): it raises
\* without engine, client or model id; returns the generator, not yet
\* started, in streaming mode; goes into _run_retrieval otherwise
PipeCall ==
    /\ pipe.pc = "idle"
    /\ \E user_message \in env.questions, model_id \in env.model_ids, stream \in env.streams :
          LET called == [pipe EXCEPT !.entry = "pipe",
                                     !.stream = stream,
                                     !.user_message = user_message]
              mode == _resolve_progress_mode(pipeline.valves)
              callback == IF mode.emit_text THEN Some({}) ELSE None
          IN  IF engine = None \/ pipeline.client = None
              THEN /\ pipe' = [called EXCEPT
                                 !.pc = "raised",
                                 !.result = Some(Exception("Oops! Forgot to initialize valves!"))]
                   /\ env' = env
              ELSE IF model_id = ""
              THEN /\ pipe' = [called EXCEPT
                                 !.pc = "raised",
                                 !.result = Some(Exception(
                                     "No model selected and LLM_DEFAULT_MODEL is empty"))]
                   /\ env' = env
              ELSE IF stream
              THEN /\ pipe' = [called EXCEPT !.pc = "generator",
                                             !.emit_events = mode.emit_events,
                                             !.emit_text = mode.emit_text,
                                             !.result = Some(Value("generator", ""))]
                   /\ env' = env
              ELSE /\ pipe' = [called EXCEPT !.pc = "retrieval",
                                             !.emit_events = mode.emit_events,
                                             !.emit_text = mode.emit_text,
                                             !.progress_callback = callback,
                                             !.worker = "process"]
                   /\ env' = [env EXCEPT !.callbacks = {callback}]
    /\ UNCHANGED <<pipeline, engine, _schema_metadata_cache, _schema_ttl_cache, now, req, http>>

\* _run_retrieval called on its own, with a callback of the caller's
RunRetrievalCall ==
    /\ pipe.pc = "idle"
    /\ \E user_message \in env.questions, progress_callback \in env.direct_callbacks :
          /\ pipe' = [pipe EXCEPT !.entry = "_run_retrieval",
                                  !.pc = "retrieval",
                                  !.user_message = user_message,
                                  !.progress_callback = progress_callback,
                                  !.worker = "process"]
          /\ env' = [env EXCEPT !.callbacks = {progress_callback}]
    /\ UNCHANGED <<pipeline, engine, _schema_metadata_cache, _schema_ttl_cache, now, req, http>>

\* the first next() on the generator: lines 330-353, the worker thread is
\* started with on_progress as its callback
GeneratorStart ==
    /\ pipe.pc = "generator"
    /\ pipe' = [pipe EXCEPT !.pc = "poll",
                            !.progress_callback = Some({}),
                            !.worker = "process"]
    /\ env' = [env EXCEPT !.callbacks = {Some({})}]
    /\ UNCHANGED <<pipeline, engine, _schema_metadata_cache, _schema_ttl_cache, now, req, http>>

\* the loop condition of the generator, first half: retrieval_done.is_set()
\* alone, without the look at the queue
PollDoneOnly ==
    /\ pipe.pc = "poll"
    /\ pipe' = [pipe EXCEPT !.pc = IF ~pipe.retrieval_done THEN "get" ELSE "prompt"]
    /\ UNCHANGED <<pipeline, engine, _schema_metadata_cache, _schema_ttl_cache,
                   now, env, req, http>>

\* the loop condition of the generator, first half: not retrieval_done.is_set()
Poll ==
    /\ pipe.pc = "poll"
    /\ pipe' = [pipe EXCEPT !.pc = IF ~pipe.retrieval_done THEN "get" ELSE "poll_queue"]
    /\ UNCHANGED <<pipeline, engine, _schema_metadata_cache, _schema_ttl_cache,
                   now, env, req, http>>

\* second half, read after the event was seen set: not progress_queue.empty()
PollQueue ==
    /\ pipe.pc = "poll_queue"
    /\ pipe' = [pipe EXCEPT !.pc = IF progress_queue # <<>> THEN "get" ELSE "prompt"]
    /\ UNCHANGED <<pipeline, engine, _schema_metadata_cache, _schema_ttl_cache,
                   now, env, req, http>>

\* progress_queue.get(timeout=0.2) and the body of the loop up to its first
\* yield (lines 356-372): queue.Empty sends the loop back to its condition
Get ==
    /\ pipe.pc = "get"
    /\ IF progress_queue = <<>>
       THEN pipe' = [pipe EXCEPT !.pc = "poll"]
       ELSE LET progress == Head(progress_queue)
                status_data == _build_status_data(progress)
                line == _format_progress_line(progress)
                taken == [pipe EXCEPT !.dequeued = @ + 1, !.progress = Some(progress)]
            IN  pipe' =
                  IF pipe.emit_events
                  THEN IF status_data.hidden THEN [taken EXCEPT !.pc = "poll"]
                       ELSE [taken EXCEPT
                               !.pc = "yield_status",
                               !.yielded = Append(@, Value("status", status_data))]
                  ELSE IF pipe.emit_text /\ line # <<>>
                  THEN [taken EXCEPT !.pc = "yield_line",
                                     !.yielded = Append(@, Value("line", line))]
                  ELSE [taken EXCEPT !.pc = "poll"]
    /\ UNCHANGED <<pipeline, engine, _schema_metadata_cache, _schema_ttl_cache,
                   now, env, req, http>>

\* the next next() of the consumer at a yield: the text line after the status
\* (lines 374-377), the loop condition again, or the next chunk
Resume ==
    /\ pipe.pc \in {"yield_status", "yield_line", "yield_chunk"}
    /\ LET line == _format_progress_line(pipe.progress[1])
       IN  pipe' =
             IF pipe.pc = "yield_chunk" THEN [pipe EXCEPT !.pc = "stream"]
             ELSE IF pipe.pc = "yield_status" /\ pipe.emit_text /\ line # <<>>
             THEN [pipe EXCEPT !.pc = "yield_line",
                               !.yielded = Append(@, Value("line", line))]
             ELSE [pipe EXCEPT !.pc = "poll"]
    /\ UNCHANGED <<pipeline, engine, _schema_metadata_cache, _schema_ttl_cache,
                   now, env, req, http>>

\* the consumer closes the generator, before its first next() or at a yield:
\* GeneratorExit ends the generator; nothing is said to the worker thread
Close ==
    /\ pipe.pc \in {"generator", "yield_status", "yield_line", "yield_chunk"}
    /\ pipe' = [pipe EXCEPT !.pc = "closed"]
    /\ UNCHANGED <<pipeline, engine, _schema_metadata_cache, _schema_ttl_cache,
                   now, env, req, http>>

\* after the loop (lines 379-392): the prompt from retrieval_state, and the
\* call of client.stream_text, whose generator fails or not later on
BuildPrompt ==
    /\ pipe.pc = "prompt"
    /\ \E behaviour \in env.stream_texts :
          pipe' = [pipe EXCEPT
                     !.pc = "stream",
                     !.llm_calls = Append(@,
                         [method |-> "stream_text",
                          outcome |-> behaviour,
                          prompt |-> _build_prompt_with_retrieval(
                                         pipe.retrieval_state.retrieval,
                                         pipe.retrieval_state.retrieval_error,
                                         pipe.user_message)])]
    /\ UNCHANGED <<pipeline, engine, _schema_metadata_cache, _schema_ttl_cache,
                   now, env, req, http>>

\* one turn of the for loop over client.stream_text (lines 389-396): a chunk
\* is yielded, the stream ends, or its exception leaves the generator
StreamText ==
    /\ pipe.pc = "stream"
    /\ LET behaviour == pipe.llm_calls[1].outcome
       IN  pipe' =
             IF pipe.chunks < Len(behaviour.chunks)
             THEN [pipe EXCEPT !.pc = "yield_chunk",
                               !.chunks = @ + 1,
                               !.yielded = Append(@,
                                   Value("chunk", behaviour.chunks[pipe.chunks + 1]))]
             ELSE IF behaviour.error # None
             THEN [pipe EXCEPT !.pc = "raised",
                               !.result = Some(Exception(behaviour.error[1]))]
             ELSE [pipe EXCEPT !.pc = "finished"]
    /\ UNCHANGED <<pipeline, engine, _schema_metadata_cache, _schema_ttl_cache,
                   now, env, req, http>>

\* what a call of _run_retrieval ended with: the pair it returned, or the
\* exception that left it
Run(retrieval, retrieval_error, exception) ==
    [retrieval |-> retrieval, retrieval_error |-> retrieval_error, exception |-> exception]

\* _run_retrieval when process has returned (lines 260-262)
RunRetrievalReturn ==
    /\ pipe.worker = "process"
    /\ engine # None
    /\ req[Caller].pc = "done"
    /\ LET run == Run(req[Caller].result, None, None)
       IN  pipe' = IF pipe.entry = "_run_retrieval"
                   THEN [pipe EXCEPT !.worker = "returned",
                                     !.run = Some(run),
                                     !.pc = "returned",
                                     !.result = Some(Value("tuple", run))]
                   ELSE [pipe EXCEPT !.worker = "returned", !.run = Some(run)]
    /\ UNCHANGED <<pipeline, engine, _schema_metadata_cache, _schema_ttl_cache,
                   now, env, req, http>>

\* the error event of the handler (lines 270-278)
ErrorEvent(retrieval_error, callback) ==
    [stage |-> "error", done |-> TRUE, payload |-> [error |-> retrieval_error],
     raised |-> "error" \in callback[1]]

\* _run_retrieval when the call of process raises (lines 263-280): with no
\* engine the attribute access raises, with one the call does for a reason
\* of its own; the handler calls the callback outside any try, so that an
\* exception of the callback leaves _run_retrieval
ProcessRaises ==
    /\ pipe.worker = "process"
    /\ req[Caller].pc # "done"
    /\ \E retrieval_error \in
              IF engine = None THEN {"'NoneType' object has no attribute 'process'"}
              ELSE env.process_errors :
          LET callback == pipe.progress_callback
              failed == callback # None /\ "error" \in callback[1]
              run == IF failed THEN Run(None, None, Some("callback failed"))
                     ELSE Run(None, Some(retrieval_error), None)
              left == [pipe EXCEPT !.worker = IF failed THEN "raised" ELSE "returned",
                                   !.run = Some(run)]
          IN  /\ req' = IF callback = None THEN req
                        ELSE [req EXCEPT ![Caller].events =
                                 Append(@, ErrorEvent(retrieval_error, callback))]
              /\ pipe' = IF pipe.entry = "_run_retrieval"
                         THEN [left EXCEPT !.pc = IF failed THEN "raised" ELSE "returned",
                                           !.result =
                                               IF failed
                                               THEN Some(Exception("callback failed"))
                                               ELSE Some(Value("tuple", run))]
                         ELSE left
    /\ UNCHANGED <<pipeline, engine, _schema_metadata_cache, _schema_ttl_cache, now, env, http>>

\* retrieval_worker after _run_retrieval: the two stores (lines 348-349)
WorkerStore ==
    /\ pipe.stream
    /\ pipe.worker = "returned"
    /\ pipe' = [pipe EXCEPT
                  !.worker = "stored",
                  !.retrieval_state = [retrieval |-> pipe.run[1].retrieval,
                                       retrieval_error |-> pipe.run[1].retrieval_error]]
    /\ UNCHANGED <<pipeline, engine, _schema_metadata_cache, _schema_ttl_cache,
                   now, env, req, http>>

\* retrieval_done.set() (line 350), the last statement of the worker thread
WorkerSetDone ==
    /\ pipe.worker = "stored"
    /\ pipe' = [pipe EXCEPT !.worker = "finished", !.retrieval_done = TRUE]
    /\ UNCHANGED <<pipeline, engine, _schema_metadata_cache, _schema_ttl_cache,
                   now, env, req, http>>

\* the lines on_non_stream_progress has gathered
non_stream_progress ==
    LET events == req[Caller].events
        shown == {i \in DOMAIN events : _format_progress_line(events[i]) # <<>>}
    IN  [i \in 1..Cardinality(shown) |->
            _format_progress_line(
                events[CHOOSE k \in shown : Cardinality({j \in shown : j <= k}) = i])]

\* pipe after _run_retrieval without streaming (lines 419-440): the prompt,
\* the one call of client.chat_text, and the text returned; any exception
\* raised since the try began comes back as a text
ChatText ==
    /\ pipe.entry = "pipe"
    /\ ~pipe.stream
    /\ pipe.pc = "retrieval"
    /\ pipe.worker \in {"returned", "raised"}
    /\ IF pipe.worker = "raised"
       THEN pipe' = [pipe EXCEPT
                       !.pc = "returned",
                       !.result = Some(Value("str", <<"Error calling LLM: ",
                                                       pipe.run[1].exception[1]>>))]
       ELSE \E outcome \in env.chat_texts :
               pipe' = [pipe EXCEPT
                          !.pc = "returned",
                          !.llm_calls = Append(@,
                              [method |-> "chat_text",
                               outcome |-> outcome,
                               prompt |-> _build_prompt_with_retrieval(
                                              pipe.run[1].retrieval,
                                              pipe.run[1].retrieval_error,
                                              pipe.user_message)]),
                          !.result = Some(Value("str",
                              IF outcome.error # None
                              THEN <<"Error calling LLM: ", outcome.error[1]>>
                              ELSE IF pipe.emit_text
                              THEN non_stream_progress \o <<outcome.text>>
                              ELSE <<outcome.text>>))]
    /\ UNCHANGED <<pipeline, engine, _schema_metadata_cache, _schema_ttl_cache,
                   now, env, req, http>>

\* the steps of the Pipeline and, while _run_retrieval is inside process,
\* those of the engine
PipeNext ==
    \/ _update
    \/ PipeCall
    \/ RunRetrievalCall
    \/ GeneratorStart
    \/ Poll
    \/ PollQueue
    \/ Get
    \/ Resume
    \/ Close
    \/ BuildPrompt
    \/ StreamText
    \/ RunRetrievalReturn
    \/ ProcessRaises
    \/ WorkerStore
    \/ WorkerSetDone
    \/ ChatText
    \/ (pipe.worker = "process" /\ engine # None /\ Next)


\* a Pipeline started with one of the valves: its engine and client are in
\* place, and no call has been made
InitWith(valves, environments) ==
    /\ \E v \in valves :
          /\ pipeline = [valves |-> Valves(v, "http://ollama:11434", MODE_events),
                         client |-> Some("http://ollama:11434")]
          /\ engine = SelfQueryLLM(EngineArguments(pipeline.valves))
    /\ pipe = IdlePipe
    /\ env \in environments
    /\ _schema_metadata_cache = None
    /\ _schema_ttl_cache = None
    /\ now = 0
    /\ req = [p \in Procs |-> IdleRequest]
    /\ http = <<>>

\* Deduplication: the planner repeats itself up to case and whitespace, and
\* repeats the lexical generator
LexicalProbe == Lower(_build_lexical_candidates(SelfQueryLLM(BaseValves), UQ_Pump)[1])

DedupContents ==
    {<<Q_SelectLimit>>, <<Q_SelectLimitTight>>, <<Q_SelectLimitSpaced>>,
     <<Q_SelectLimit, Q_SelectLimitSpaced>>, <<LexicalProbe>>}

DedupValves ==
    {[BaseValves EXCEPT !.enable_lexical_search = lexical,
                        !.include_full_schema_ttl = lexical]
        : lexical \in BOOLEAN}

DedupEnv ==
    {[BaseEnv EXCEPT
        !.planner_calls = {Returned(content, 0) : content \in DedupContents},
        !.json_attempts = {Ok(Bindings(<<0, 0>>), 0)}]}

InitDedup == InitWith(DedupValves, DedupEnv)

SpecDedup == InitDedup /\ [][Next]_vars


\* Timing: schema loading, the planner and the endpoint take time; the
\* planner may answer after planner_timeout_sec
TimingValves ==
    {[BaseValves EXCEPT !.max_iterations = max_iterations,
                        !.min_iterations_before_early_stop = 1,
                        !.include_full_schema_ttl = (max_iterations = 1),
                        !.global_time_budget_sec = 2]
        : max_iterations \in {1, 2}}

TimingEnv ==
    {[BaseEnv EXCEPT
        !.planner_calls = {Returned(<<Q_SelectLimit, Q_Ask>>, 0),
                           Returned(<<Q_SelectLimitTight>>, 2),
                           Raised(0)},
        !.json_attempts = {Ok(Bindings(<<>>), 0), Ok(Bindings(<<0, 0>>), 1)},
        !.select_attempts = {Ok("A", 0), Ok("A", 1)},
        !.ttl_attempts = {Ok(<<"t", "t", "l">>, 0), Fail(<<>>, "timed out", 1)}]}

InitTiming == InitWith(TimingValves, TimingEnv)

SpecTiming == InitTiming /\ [][Next]_vars

\* Early stop: the best score grows by less than, exactly, or more than
\* min_score_improvement from one iteration to the next
EarlyStopValves ==
    {[BaseValves EXCEPT !.max_iterations = max_iterations,
                        !.min_iterations_before_early_stop = 2,
                        !.min_score_improvement = 50,
                        !.max_rows = 20,
                        !.include_full_schema_ttl = (max_iterations = 2)]
        : max_iterations \in {2, 5}}

\* scores 0.0, 0.05, 0.80 and 0.81 with max_rows = 20: no row, one row,
\* 16 rows, 12 rows with 7 lexical hits
EarlyStopScores ==
    {Bindings(<<>>),
     Bindings(<<0>>),
     Bindings([i \in 1..16 |-> 0]),
     Bindings([i \in 1..12 |-> IF i = 1 THEN 7 ELSE 0])}

EarlyStopEnv ==
    {[BaseEnv EXCEPT
        !.planner_calls = {Returned(<<Q_SelectLimit>>, 0),
                           Returned(<<Q_SelectLimitTight>>, 0),
                           Returned(<<Q_Ask>>, 0)},
        !.json_attempts = {Ok(payload, 0) : payload \in EarlyStopScores}]}

InitEarlyStop == InitWith(EarlyStopValves, EarlyStopEnv)

SpecEarlyStop == InitEarlyStop /\ [][Next]_vars

\* Schema caches: two process calls on one engine while the ontology behind
\* the endpoint changes or the endpoint fails. The calls run one after the
\* other through the whole loop, or they overlap: then the endpoint is slow,
\* the budget of one second is used up by schema loading and the loop stops
\* at the top of iteration 1. Overlapping calls race for the metadata cache,
\* or, the metadata fetch failing, for the TTL cache.
CacheValves == [BaseValves EXCEPT !.max_iterations = 1]

CacheSequential ==
    [valves |-> [CacheValves EXCEPT !.include_full_schema_ttl = TRUE],
     env |-> [BaseEnv EXCEPT
                 !.callers = Procs,
                 !.sequential = TRUE,
                 !.select_attempts = {Ok("A", 0), Ok("B", 0),
                                      Fail("A", "HTTP Error 503", 0)},
                 !.ttl_attempts = {Ok(<<"t", "1">>, 0), Ok(<<"t", "2">>, 0)}]]

CacheMetadataRace ==
    [valves |-> [CacheValves EXCEPT !.global_time_budget_sec = 1],
     env |-> [BaseEnv EXCEPT
                 !.callers = Procs,
                 !.sequential = FALSE,
                 !.select_attempts = {Ok("A", 1), Ok("B", 1)}]]

CacheTtlRace ==
    [valves |-> [CacheValves EXCEPT !.global_time_budget_sec = 1,
                                    !.include_full_schema_ttl = TRUE],
     env |-> [BaseEnv EXCEPT
                 !.callers = Procs,
                 !.sequential = FALSE,
                 !.select_attempts = {Fail("A", "timed out", 1)},
                 !.ttl_attempts = {Ok(<<"t", "1">>, 0), Ok(<<"t", "2">>, 0)}]]

InitCache ==
    \E scenario \in {CacheSequential, CacheMetadataRace, CacheTtlRace} :
        InitWith({scenario.valves}, {scenario.env})

SpecCache == InitCache /\ [][Next]_vars

\* Budget: every planner call answers within planner_timeout_sec, and
\* schema queries, planner calls and candidate queries take up to a second
BudgetValves ==
    {[BaseValves EXCEPT !.max_iterations = 2,
                        !.min_iterations_before_early_stop = 2,
                        !.include_full_schema_ttl = ttl,
                        !.global_time_budget_sec = 2]
        : ttl \in BOOLEAN}

BudgetEnv ==
    {[BaseEnv EXCEPT
        !.planner_calls = {Returned(<<Q_SelectLimit, Q_Ask>>, 1),
                           Returned(<<Q_SelectLimitTight>>, 0)},
        !.json_attempts = {Ok(Bindings(<<0, 0>>), 0), Ok(Bindings(<<0, 0>>), 1)},
        !.select_attempts = {Ok("A", 0), Ok("A", 1)}]}

InitBudget == InitWith(BudgetValves, BudgetEnv)

SpecBudget == InitBudget /\ [][Next]_vars

\* Ranking: two iterations gather up to four records of scores 0, 0.2 and 1,
\* failures among them, more than top_k keeps
RankingValves ==
    {[BaseValves EXCEPT !.top_k = top_k,
                        !.max_iterations = 2,
                        !.include_full_schema_ttl = (top_k = 1)]
        : top_k \in {1, 2}}

RankingEnv ==
    {[BaseEnv EXCEPT
        !.planner_calls = {Returned(<<Q_SelectLimit, Q_Ask>>, 0),
                           Returned(<<Q_SelectLimitTight, Q_Update>>, 0)},
        !.json_attempts = {Ok(Bindings(<<>>), 0), Ok(Bindings(<<0, 0>>), 0),
                           Ok(Boolean("true"), 0),
                           Fail(Bindings(<<>>), "HTTP Error 500", 0)}]}

InitRanking == InitWith(RankingValves, RankingEnv)

SpecRanking == InitRanking /\ [][Next]_vars

\* Failures: the validator rejects, the endpoint fails, the endpoint answers
\* with JSON the scorer cannot read, the planner fails
FailureValves ==
    {[BaseValves EXCEPT !.max_iterations = 2,
                        !.include_full_schema_ttl = ttl]
        : ttl \in BOOLEAN}

FailureEnv ==
    {[BaseEnv EXCEPT
        !.planner_calls = {Returned(<<Q_SelectLimit, Q_Update>>, 0),
                           Returned(<<Q_Construct, Q_Ask>>, 0),
                           Raised(0)},
        !.json_attempts = {Ok(Bindings(<<0, 0>>), 0), Ok(Malformed, 0),
                           Fail(Bindings(<<>>), "HTTP Error 500", 0)},
        !.turtle_attempts = {Ok(<<PrefixLine, Triple({})>>, 0),
                             Fail(<<>>, "timed out", 0)},
        !.select_attempts = {Ok("A", 0), Fail("A", "HTTP Error 500", 0)},
        !.ttl_attempts = {Ok(<<"t", "t", "l">>, 0), Fail(<<>>, "HTTP Error 500", 0)}]}

InitFailure == InitWith(FailureValves, FailureEnv)

SpecFailure == InitFailure /\ [][Next]_vars

\* Scoring: answers of every shape, with fewer rows or lines than the caps,
\* as many, and more, and with few and many lexical hits
ScoringValves ==
    {[BaseValves EXCEPT !.max_rows = cap,
                        !.max_triples = cap,
                        !.max_iterations = 1,
                        !.include_full_schema_ttl = (cap = 1)]
        : cap \in {1, 2}}

ScoringJson ==
    {Boolean("true"), Boolean("false"),
     Bindings(<<>>), Bindings(<<0>>), Bindings(<<1, 0>>), Bindings(<<0, 0, 0>>),
     Bindings(<<2, 34, 0>>)}

ScoringTurtle ==
    {<<>>, <<PrefixLine, BlankLine>>,
     <<PrefixLine, Triple({})>>,
     <<Triple({"pump"}), BlankLine, Triple({})>>,
     <<Triple({"pump", "p", "101"}), Triple({"pump", "101"}), Triple({"pump"})>>}

ScoringEnv ==
    {[BaseEnv EXCEPT
        !.planner_calls = {Returned(<<Q_SelectLimit, Q_Ask>>, 0),
                           Returned(<<Q_Construct, Q_Describe>>, 0)},
        !.json_attempts = {Ok(payload, 0) : payload \in ScoringJson},
        !.turtle_attempts = {Ok(payload, 0) : payload \in ScoringTurtle}]}

InitScoring == InitWith(ScoringValves, ScoringEnv)

SpecScoring == InitScoring /\ [][Next]_vars

\* Loop length: max_iterations given as 0 (clamped to 1) or 2, and a loop
\* that ends for each of the four reasons
LoopValves ==
    {[BaseValves EXCEPT !.max_iterations = max_iterations,
                        !.min_iterations_before_early_stop = 1,
                        !.include_full_schema_ttl = (max_iterations = 0),
                        !.global_time_budget_sec = 2]
        : max_iterations \in {0, 2}}

LoopEnv ==
    {[BaseEnv EXCEPT
        !.planner_calls = {Returned(<<Q_SelectLimit>>, 0),
                           Returned(<<Q_Ask>>, 1),
                           Returned(<<>>, 0)},
        !.json_attempts = {Ok(Bindings(<<>>), 0), Ok(Bindings(<<0, 0>>), 1),
                           Ok(Boolean("true"), 0)},
        !.select_attempts = {Ok("A", 0), Ok("A", 1)}]}

InitLoop == InitWith(LoopValves, LoopEnv)

SpecLoop == InitLoop /\ [][Next]_vars

\* Fallback: the planner answers with a query, with an empty list or a text
\* holding no query, with blank items only, fails, or answers too late
FallbackValves ==
    {[BaseValves EXCEPT !.max_iterations = 2,
                        !.enable_lexical_search = lexical,
                        !.include_full_schema_ttl = lexical]
        : lexical \in BOOLEAN}

FallbackEnv ==
    {[BaseEnv EXCEPT
        !.questions = {UQ_Pump, UQ_Quote},
        !.planner_calls = {Returned(<<Q_SelectLimit>>, 0),
                           Returned(<<>>, 0),
                           Returned(<< <<" ">>, <<>> >>, 1),
                           Raised(0),
                           Returned(<<Q_Ask>>, 2)}]}

InitFallback == InitWith(FallbackValves, FallbackEnv)

SpecFallback == InitFallback /\ [][Next]_vars

\* Failover: the endpoint is given by the host name host.docker.internal, or
\* not; each endpoint candidate answers, refuses the connection, or times out
FailoverValves ==
    {[BaseValves EXCEPT !.endpoint = endpoint,
                        !.max_iterations = 1,
                        !.include_full_schema_ttl = (Len(endpoint) = 3)]
        : endpoint \in {<<"http://", "host.docker.internal", ":7200/x">>,
                        <<"http://graphdb:7200/x">>}}

FailoverEnv ==
    {[BaseEnv EXCEPT
        !.planner_calls = {Returned(<<Q_SelectLimit, Q_Construct>>, 0)},
        !.json_attempts = {Ok(Bindings(<<0>>), 0), Ok(Bindings(<<0, 0>>), 0),
                           Fail(Bindings(<<>>), "Connection refused", 0),
                           Fail(Bindings(<<>>), "timed out", 1)},
        !.turtle_attempts = {Ok(<<PrefixLine, Triple({})>>, 0),
                             Fail(<<>>, "Connection refused", 0)},
        !.select_attempts = {Ok("A", 0), Fail("A", "Connection refused", 0)},
        !.ttl_attempts = {Ok(<<"t", "t", "l">>, 0), Fail(<<>>, "Connection refused", 0)}]}

InitFailover == InitWith(FailoverValves, FailoverEnv)

SpecFailover == InitFailover /\ [][Next]_vars

\* Callbacks: process is called without a callback, with one that returns,
\* and with callbacks that raise at some stages or at every stage. Two calls
\* made one after the other get the same answers from the planner and the
\* endpoint: the environment has one answer of each kind, and the metadata
\* queries fail, so that nothing is cached between the calls. A single call
\* with working schema queries completes the scenario.
Stages ==
    {"start", "schema_metadata", "schema_ttl", "iteration_start",
     "iteration_candidates", "iteration_executed", "iteration_stop", "complete"}

Callbacks ==
    {None, Some({}), Some({"start", "iteration_executed"}), Some({"complete"}),
     Some(Stages)}

CallbackValves == [BaseValves EXCEPT !.max_iterations = 2]

CallbackPairAnswered ==
    [valves |-> CallbackValves,
     env |-> [BaseEnv EXCEPT
                 !.callers = Procs,
                 !.callbacks = Callbacks,
                 !.planner_calls = {Returned(<<Q_SelectLimit, Q_Update>>, 0)},
                 !.select_attempts = {Fail("A", "HTTP Error 503", 0)}]]

CallbackPairFailing ==
    [valves |-> [CallbackValves EXCEPT !.global_time_budget_sec = 1],
     env |-> [BaseEnv EXCEPT
                 !.callers = Procs,
                 !.callbacks = Callbacks,
                 !.planner_calls = {Raised(0)},
                 !.json_attempts = {Fail(Bindings(<<>>), "timed out", 1)},
                 !.select_attempts = {Fail("A", "HTTP Error 503", 0)}]]

CallbackSingle ==
    [valves |-> [CallbackValves EXCEPT !.include_full_schema_ttl = TRUE],
     env |-> [BaseEnv EXCEPT !.callbacks = Callbacks]]

InitCallback ==
    \E scenario \in {CallbackPairAnswered, CallbackPairFailing, CallbackSingle} :
        InitWith({scenario.valves}, {scenario.env})

SpecCallback == InitCallback /\ [][Next]_vars

\* Robustness: every failure at once. The schema queries fail, the planner
\* fails or answers too late, the validator rejects, the endpoint fails or
\* answers with JSON the scorer cannot read, the callback raises
RobustEnv ==
    {[environment EXCEPT
        !.callbacks = {None, Some({}), Some(Stages)},
        !.planner_calls = @ \cup {Returned(<<Q_Ask>>, 2)}]
        : environment \in FailureEnv}

InitRobust == InitWith(FailureValves, RobustEnv)

SpecRobust == InitRobust /\ [][Next]_vars

\* Failing queries: two endpoint candidates that may both refuse a query, in
\* a loop of two iterations that cannot stop early after the first
QueryFailureValves ==
    {[BaseValves EXCEPT !.endpoint = <<"http://", "host.docker.internal", ":7200/x">>,
                        !.max_iterations = 2,
                        !.min_iterations_before_early_stop = 2,
                        !.include_full_schema_ttl = ttl]
        : ttl \in BOOLEAN}

QueryFailureEnv ==
    {[BaseEnv EXCEPT
        !.planner_calls = {Returned(<<Q_SelectLimit, Q_Construct>>, 0),
                           Returned(<<Q_Ask>>, 0)},
        !.json_attempts = {Ok(Bindings(<<0>>), 0),
                           Fail(Bindings(<<>>), "Connection refused", 0),
                           Fail(Bindings(<<>>), "timed out", 0)},
        !.turtle_attempts = {Ok(<<PrefixLine, Triple({})>>, 0),
                             Fail(<<>>, "Connection refused", 0)},
        !.select_attempts = {Ok("A", 0)},
        !.ttl_attempts = {Ok(<<"t", "t", "l">>, 0)}]}

InitQueryFailure == InitWith(QueryFailureValves, QueryFailureEnv)

SpecQueryFailure == InitQueryFailure /\ [][Next]_vars

\* Clamping: configured pairs of max_iterations and
\* min_iterations_before_early_stop below, inside and above their ranges
ClampValves ==
    {[BaseValves EXCEPT !.max_iterations = max_iterations,
                        !.min_iterations_before_early_stop = min_iterations,
                        !.include_full_schema_ttl = (max_iterations = 2)]
        : max_iterations \in -1..3, min_iterations \in -1..4}

InitClamp == InitWith(ClampValves, {BaseEnv})

SpecClamp == InitClamp /\ [][Next]_vars

\* The frontend: valves set once or several times, complete or with an
\* empty URL, then one call, streaming or not, or a call of _run_retrieval
\* on its own; the final LLM call answers or fails
PipelineEngineValves ==
    [BaseValves EXCEPT !.include_full_schema_ttl = TRUE,
                       !.max_iterations = 1,
                       !.min_iterations_before_early_stop = 1]

PipelineValves ==
    {Valves(PipelineEngineValves, "http://ollama:11434", MODE_events),
     Valves(PipelineEngineValves, "http://ollama:11434", MODE_both),
     Valves(PipelineEngineValves, "http://ollama:11434", <<" ", "T", "e", "x", "t">>),
     Valves([PipelineEngineValves EXCEPT !.endpoint = <<>>], "http://ollama:11434", MODE_events),
     Valves(PipelineEngineValves, "", MODE_events)}

PipelineEnv ==
    [callers |-> {Caller},
     sequential |-> TRUE,
     questions |-> {UQ_Pump},
     callbacks |-> {None},
     planner_calls |-> {Returned(<<Q_SelectLimit>>, 0)},
     json_attempts |-> {Ok(Bindings(<<0, 0>>), 0)},
     turtle_attempts |-> {Ok(<<PrefixLine, Triple({})>>, 0)},
     select_attempts |-> {Ok("A", 0)},
     ttl_attempts |-> {Ok(<<"t", "t", "l">>, 0)},
     valves |-> PipelineValves,
     model_ids |-> {"llama3", ""},
     streams |-> BOOLEAN,
     direct_callbacks |-> {None, Some({}), Some({"error"})},
     process_errors |-> {"object of type 'NoneType' has no len()", ""},
     stream_texts |-> {[chunks |-> <<"a", "b">>, error |-> None],
                       [chunks |-> <<"a">>, error |-> Some("Connection reset")],
                       [chunks |-> <<>>, error |-> Some("HTTP Error 503")]},
     chat_texts |-> {[text |-> "answer", error |-> None],
                     [text |-> "", error |-> Some("HTTP Error 503")]}]

\* after Pipeline.__init__ with SPARQL_BASE_URL unset in the process
\* environment: no engine, no client
InitPipeline ==
    /\ pipeline = [valves |-> Valves([PipelineEngineValves EXCEPT !.endpoint = <<>>],
                                     "http://ollama:11434", MODE_events),
                   client |-> None]
    /\ pipe = IdlePipe
    /\ engine = None
    /\ env = PipelineEnv
    /\ _schema_metadata_cache = None
    /\ _schema_ttl_cache = None
    /\ now = 0
    /\ req = [p \in Procs |-> IdleRequest]
    /\ http = <<>>

SpecPipeline == InitPipeline /\ [][PipeNext]_vars

\* Isolation: two calls overlap in every possible way on one engine; the
\* planner and the endpoint give every request of a kind the same answer, so
\* that a call made alone has one possible outcome per question
IsolationValves ==
    {[BaseValves EXCEPT !.max_iterations = max_iterations,
                        !.min_iterations_before_early_stop = max_iterations,
                        !.include_full_schema_ttl = (max_iterations = 1)]
        : max_iterations \in {1, 2}}

IsolationEnv ==
    {[BaseEnv EXCEPT !.callers = Procs,
                     !.sequential = FALSE,
                     !.callbacks = {None}]}

InitIsolation == InitWith(IsolationValves, IsolationEnv)

SpecIsolation == InitIsolation /\ [][Next]_vars

\* Batches: two iterations whose batches hold planner and lexical candidates,
\* some rejected by the validator, some failing at the endpoint; the planner
\* may propose a lexical candidate itself
BatchContents ==
    {<<Q_SelectLimit, Q_Update>>,
     <<Q_Construct>>,
     <<Lower(_build_lexical_candidates(SelfQueryLLM(BaseValves), UQ_Pump)[2]), Q_Ask>>}

BatchValves ==
    {[BaseValves EXCEPT !.max_iterations = 2,
                        !.min_iterations_before_early_stop = 2,
                        !.enable_lexical_search = lexical,
                        !.include_full_schema_ttl = ~lexical]
        : lexical \in BOOLEAN}

BatchEnv ==
    {[BaseEnv EXCEPT
        !.planner_calls = {Returned(content, 0) : content \in BatchContents},
        !.json_attempts = {Ok(Bindings(<<0, 0>>), 0),
                           Fail(Bindings(<<>>), "HTTP Error 500", 0)}]}

InitBatch == InitWith(BatchValves, BatchEnv)

SpecBatch == InitBatch /\ [][Next]_vars

\* Improvement: loops of up to three iterations whose batches score higher,
\* equal or lower than the batches before; min_score_improvement is 0, or
\* early stop is allowed only at the last iteration, or neither
ImprovementValves ==
    {[BaseValves EXCEPT !.max_iterations = 3,
                        !.min_iterations_before_early_stop = setting[1],
                        !.min_score_improvement = setting[2],
                        !.max_rows = 20,
                        !.include_full_schema_ttl = (setting[2] = 0)]
        : setting \in {<<1, 0>>, <<3, 50>>, <<1, 50>>}}

ImprovementEnv ==
    {[BaseEnv EXCEPT
        !.planner_calls = {Returned(<<Q_SelectLimit>>, 0),
                           Returned(<<Q_SelectLimitTight>>, 0),
                           Returned(<<Q_Ask>>, 0)},
        !.json_attempts = {Ok(payload, 0) : payload \in EarlyStopScores}]}

InitImprovement == InitWith(ImprovementValves, ImprovementEnv)

SpecImprovement == InitImprovement /\ [][Next]_vars

\* Stop reasons: loops of one and of three iterations that may stop early
\* from the second iteration on, with the planner and the endpoint of the
\* loop-length scenario, so that the loop ends for each of the four reasons
StopValves ==
    {[BaseValves EXCEPT !.max_iterations = max_iterations,
                        !.min_iterations_before_early_stop = 2,
                        !.include_full_schema_ttl = (max_iterations = 1),
                        !.global_time_budget_sec = 2]
        : max_iterations \in {1, 3}}

InitStop == InitWith(StopValves, LoopEnv)

SpecStop == InitStop /\ [][Next]_vars

\* Own candidates: the planner fails or answers, so that the first batch
\* holds the fallback query or the planner's, and the lexical candidates of
\* up to two tokens; the questions hold a plain text, a quote, and the word
\* `with`
OwnCandidatesValves ==
    {[BaseValves EXCEPT !.max_iterations = 1,
                        !.enable_lexical_search = lexical,
                        !.lexical_max_tokens = 2,
                        !.include_full_schema_ttl = ~lexical]
        : lexical \in BOOLEAN}

OwnCandidatesEnv ==
    {[BaseEnv EXCEPT
        !.questions = {UQ_Pump, UQ_Quote, UQ_With},
        !.planner_calls = {Raised(0), Returned(<<Q_SelectLimit>>, 0)}]}

InitOwnCandidates == InitWith(OwnCandidatesValves, OwnCandidatesEnv)

SpecOwnCandidates == InitOwnCandidates /\ [][Next]_vars

\* Validation: the planner proposes queries the validator accepts and queries
\* it rejects; with max_query_chars at its floor the lexical candidates are
\* too long
ValidatorContents ==
    {<<Q_SelectNoLimit, Q_SelectLimit>>, <<Q_Forbidden, Q_Ask>>,
     <<Q_Describe, Q_Construct>>, <<Q_Update, Q_Limitless>>}

ValidatorValves ==
    {[BaseValves EXCEPT !.allow_describe = describe,
                        !.enable_lexical_search = ~describe,
                        !.lexical_match_labels = ~describe,
                        !.max_query_chars = IF describe THEN 8000 ELSE 0,
                        !.include_full_schema_ttl = TRUE,
                        !.max_iterations = 1]
        : describe \in BOOLEAN}

ValidatorEnv ==
    {[BaseEnv EXCEPT
        !.planner_calls = {Returned(content, 0) : content \in ValidatorContents},
        !.json_attempts = {Ok(Bindings(<<0, 0>>), 0), Fail(Malformed, "HTTP Error 500", 0)},
        !.turtle_attempts = {Ok(<<PrefixLine, Triple({})>>, 0)},
        !.select_attempts = {Ok("A", 0), Fail("A", "HTTP Error 500", 0)},
        !.ttl_attempts = {Ok(<<"t", "t", "l">>, 0), Fail(<<>>, "HTTP Error 500", 0)}]}

InitValidator == InitWith(ValidatorValves, ValidatorEnv)

SpecValidator == InitValidator /\ [][Next]_vars

\* ------------------------------------------------------------------------
\* Observations used by the properties
\* ------------------------------------------------------------------------

\* the driver calls made for candidates of call p: every driver call asks the
\* first endpoint candidate exactly once
CandidateCalls(p) ==
    {i \in DOMAIN http :
        /\ http[i].proc = p
        /\ http[i].source = "candidate"
        /\ http[i].endpoint = _endpoint_candidates[1]}

\* the new_candidates values reported for iteration k
NewCandidatesReported(r, k) ==
    {r.events[i].payload.new_candidates :
        i \in {j \in DOMAIN r.events :
                  /\ r.events[j].stage = "iteration_candidates"
                  /\ r.events[j].payload.iteration = k}}

\* no two members of a sequence of queries have the same normalized form
DistinctNormalized(queries) ==
    LET normalized == [i \in DOMAIN queries |-> normalize_query(queries[i])]
    IN  \A i, j \in DOMAIN queries : i < j => normalized[i] # normalized[j]

\* ------------------------------------------------------------------------
\* Deduplication (C1, C2)
\* ------------------------------------------------------------------------

\* the setting of the scenario: lexical search disabled, max_iterations = 3,
\* the planner returned `first` alone in iteration 1 and `second` alone in
\* iteration 2
RepeatedInIteration2(r, first, second) ==
    /\ r.pc = "done"
    /\ ~engine.enable_lexical_search
    /\ engine.max_iterations = 3
    /\ Len(r.planner_candidates) >= 2
    /\ r.planner_candidates[1] = <<first>>
    /\ r.planner_candidates[2] = <<second>>

ExecutedOnceThenStopped(p, texts) ==
    /\ Cardinality({i \in CandidateCalls(p) : http[i].query \in texts}) = 1
    /\ NewCandidatesReported(req[p], 2) = {0}
    /\ req[p].stop_reason = "no_new_candidates"

\* C1 as stated: when the planner returns `SELECT ?s WHERE { ?s ?p ?o } LIMIT 10`
\* in iteration 1 and `select ?s where {?s ?p ?o} limit 10` (no whitespace next
\* to the braces) in iteration 2, the text is executed once, iteration 2
\* reports new_candidates = 0 and stop_reason is no_new_candidates.
C1_TightVariantDeduplicated ==
    \A p \in Procs :
        RepeatedInIteration2(req[p], Q_SelectLimit, Q_SelectLimitTight)
            => ExecutedOnceThenStopped(p, {Q_SelectLimit, Q_SelectLimitTight})

\* C1 amended: when the iteration-2 text differs from the iteration-1 text
\* only in letter case and in the length of its whitespace runs (whitespace is
\* present wherever the first text has it), the text is executed once,
\* iteration 2 reports new_candidates = 0 and stop_reason is no_new_candidates.
C1_RunVariantDeduplicated ==
    \A p \in Procs :
        \A second \in {Q_SelectLimit, Q_SelectLimitSpaced} :
            RepeatedInIteration2(req[p], Q_SelectLimit, second)
                => ExecutedOnceThenStopped(p, {Q_SelectLimit, Q_SelectLimitSpaced})

C1_Witness ==
    \E p \in Procs :
        RepeatedInIteration2(req[p], Q_SelectLimit, Q_SelectLimitSpaced)

\* C2: within one process call no two executed candidates have the same
\* normalized form: the accumulated candidates, the evidence records and the
\* driver calls made for candidates are pairwise distinct under normalization.
C2_ExecutedAtMostOnce ==
    \A p \in Procs :
        req[p].pc \in {"evaluate", "done"} =>
            /\ DistinctNormalized(req[p].all_candidates)
            /\ DistinctNormalized([i \in DOMAIN req[p].all_evidence |->
                                      req[p].all_evidence[i].query])
            /\ \A i, j \in CandidateCalls(p) :
                  i # j => normalize_query(http[i].query) # normalize_query(http[j].query)

\* the planner repeated itself inside iteration 1 and repeated a lexical
\* candidate in iteration 2
C2_Witness ==
    \E p \in Procs :
        /\ req[p].pc = "done"
        /\ engine.enable_lexical_search
        /\ Len(req[p].planner_candidates) >= 2
        /\ req[p].planner_candidates[1] = <<Q_SelectLimit, Q_SelectLimitSpaced>>
        /\ req[p].planner_candidates[2] = <<LexicalProbe>>
        /\ Len(req[p].all_evidence) = 3

\* ------------------------------------------------------------------------
\* Validation before execution (C3, C4)
\* ------------------------------------------------------------------------

\* the four rules, each read off the query text
LengthRule(query) == Len(query) <= engine.max_query_chars

FirstKeywordRule(query) == query_type(query) \in allowed_types(engine)

ForbiddenKeywordRule(query) == ~FORBIDDEN_QUERY_RE(query)

LimitRule(query) ==
    query_type(query) \in {"SELECT", "CONSTRUCT"} => Contains(Lower(query), KW_limit)

SatisfiesValidatorRules(query) ==
    /\ LengthRule(query)
    /\ FirstKeywordRule(query)
    /\ ForbiddenKeywordRule(query)
    /\ LimitRule(query)

RejectedWithoutCall(p, i) ==
    LET query == req[p].merged[i]
        record == req[p].evidence[i]
    IN  /\ record.error = Some(_validate_query(engine, query, query_type(query)).reason)
        /\ record.score = 0
        /\ record.preview = <<>>
        /\ \A k \in CandidateCalls(p) : http[k].query # query

\* C4: a candidate the validator rejects causes no endpoint call and is
\* recorded as exactly one evidence record carrying the validator's reason,
\* score 0 and an empty preview; the batch goes on, so that every candidate
\* of the batch has its record, in order, when the batch is done.
C4_RejectedRecordedNotSent ==
    \A p \in Procs :
        req[p].pc \in {"execute", "evaluate"} =>
            /\ Len(req[p].evidence) =
                   IF req[p].pc = "execute" THEN req[p].index - 1 ELSE Len(req[p].merged)
            /\ \A i \in DOMAIN req[p].evidence :
                  /\ req[p].evidence[i].query = req[p].merged[i]
                  /\ ~SatisfiesValidatorRules(req[p].merged[i]) => RejectedWithoutCall(p, i)

\* the rejected candidate came first in its batch and the valid one after it
\* was executed
C4_Witness ==
    \E p \in Procs :
        /\ req[p].pc = "evaluate"
        /\ req[p].merged = <<Q_SelectNoLimit, Q_SelectLimit>>
        /\ req[p].evidence[1].error = Some("Row/graph returning query must include LIMIT")
        /\ req[p].evidence[2].error = None
        /\ http # <<>>
        /\ http[Len(http)].query = Q_SelectLimit

\* ------------------------------------------------------------------------
\* Planner timeout (C5)
\* ------------------------------------------------------------------------

\* generate_sparql_candidates has returned after the wait on the future
\* timed out
ReturnedAfterTimeout(r) ==
    /\ r.pc = "merge"
    /\ r.future[1].state = "timeout"

\* C5: when the planner call has not returned within planner_timeout_sec,
\* generate_sparql_candidates returns the fallback query in iteration 1 and
\* nothing in later iterations, and it returns planner_timeout_sec after the
\* call was submitted, without waiting for the call still in flight.
C5_TimeoutAbandonsCall ==
    \A p \in Procs :
        ReturnedAfterTimeout(req[p]) =>
            /\ req[p].planner_candidates[req[p].iteration] =
                   IF req[p].iteration = 1
                   THEN <<_fallback_query(engine, req[p].user_query)>> ELSE <<>>
            /\ req[p].generate_returned = req[p].plan_start + engine.planner_timeout_sec

\* ------------------------------------------------------------------------
\* Stop reasons and the time budget (C8, C10)
\* ------------------------------------------------------------------------

LastEvent(r) == r.events[Len(r.events)]

\* the calls that have returned from an engine with max_iterations = 1
SingleIterationDone(p) ==
    /\ engine.max_iterations = 1
    /\ req[p].pc = "done"

\* C8 as stated: with max_iterations = 1 the stop_reason process returns is
\* max_iterations or no_new_candidates, whatever the planner, the endpoint
\* and the clock do.
C8_SingleIterationStopReasons ==
    \A p \in Procs :
        SingleIterationDone(p) =>
            req[p].result[1].stop_reason \in {"max_iterations", "no_new_candidates"}

\* C8 amended: with max_iterations = 1 the improvement rule never stops the
\* loop; the stop_reason returned is max_iterations, no_new_candidates or
\* global_time_budget, the last one only when the budget was already used up
\* at the top of iteration 1, and then no planner call and no candidate
\* request was made.
C8_SingleIterationNoImprovementStop ==
    \A p \in Procs :
        SingleIterationDone(p) =>
            /\ req[p].result[1].stop_reason \in
                   {"max_iterations", "no_new_candidates", "global_time_budget"}
            /\ req[p].result[1].stop_reason = "global_time_budget" =>
                  /\ req[p].planner_candidates = <<>>
                  /\ CandidateCalls(p) = {}
                  /\ \E i \in DOMAIN req[p].events :
                        /\ req[p].events[i].stage = "iteration_stop"
                        /\ req[p].events[i].payload.iteration = 1
                        /\ req[p].events[i].payload.elapsed_sec >= engine.global_time_budget_sec

\* the only iteration ran, its best score stayed below min_score_improvement
\* and the iteration reached min_iterations_before_early_stop
C8_Witness ==
    \E p \in Procs :
        /\ SingleIterationDone(p)
        /\ req[p].result[1].stop_reason = "max_iterations"
        /\ req[p].all_evidence # <<>>
        /\ req[p].improvement < engine.min_score_improvement
        /\ engine.min_iterations_before_early_stop = 1

\* a step of call p that consults the budget: it leaves the top of an iteration
BudgetConsulted(p) == req[p].pc = "iteration" /\ req'[p].pc # "iteration"

\* a step of call p inside execute_sparql_batch
BatchStep(p) == req[p].pc = "execute" /\ req'[p] # req[p]

\* C10: at the top of iteration k the loop stops with global_time_budget if
\* and only if the time since process entry has reached global_time_budget_sec;
\* the stopping step emits iteration_stop and makes no planner or endpoint
\* call, and none follows it. Inside a batch every step executes the next
\* candidate, whatever the clock shows, until the batch is exhausted.
C10_BudgetCheckedOnlyAtTop ==
    [][\A p \in Procs :
          /\ BudgetConsulted(p) =>
                IF now - req[p].start >= engine.global_time_budget_sec
                THEN /\ req'[p].pc = "build"
                     /\ req'[p].stop_reason = "global_time_budget"
                     /\ LastEvent(req'[p]).stage = "iteration_stop"
                     /\ LastEvent(req'[p]).payload.iteration = req[p].iteration + 1
                     /\ req'[p].planner_candidates = req[p].planner_candidates
                     /\ http' = http
                ELSE req'[p].pc = "plan"
          /\ BatchStep(p) =>
                IF req[p].index <= Len(req[p].merged)
                THEN /\ req'[p].pc = "execute"
                     /\ req'[p].index = req[p].index + 1
                     /\ Len(req'[p].evidence) = req[p].index
                ELSE /\ req'[p].pc = "evaluate"
                     /\ Len(req[p].evidence) = Len(req[p].merged)
          /\ (req[p].pc = "build" /\ req'[p] # req[p]) =>
                /\ req'[p].pc = "done"
                /\ req'[p].planner_candidates = req[p].planner_candidates
                /\ http' = http]_vars

\* the budget ran out inside the batch of iteration 1: a candidate was sent
\* after the deadline, and iteration 2 stopped at its top
C10_Witness ==
    \E p \in Procs :
        /\ req[p].pc = "done"
        /\ req[p].stop_reason = "global_time_budget"
        /\ req[p].iterations_used = 2
        /\ Len(req[p].planner_candidates) = 1
        /\ \E i \in CandidateCalls(p) :
              http[i].sent - req[p].start >= engine.global_time_budget_sec

\* ------------------------------------------------------------------------
\* Early stop on improvement (C9)
\* ------------------------------------------------------------------------

\* the step of call p that evaluates the early stop after a batch
EvaluationStep(p) == req[p].pc = "evaluate" /\ req'[p].pc # "evaluate"

\* the best score over the evidence of the earlier iterations
BestBefore(r) ==
    MaxScore(SubSeq(r.all_evidence, 1, Len(r.all_evidence) - Len(r.evidence)))

\* the rule as the claim states it, on the evidence gathered so far
ImprovementRule(r) ==
    /\ r.iteration >= engine.min_iterations_before_early_stop
    /\ r.iteration < engine.max_iterations
    /\ MaxScore(r.all_evidence) - BestBefore(r) < engine.min_score_improvement

\* C9: after the batch of iteration iter the loop stops with
\* no_meaningful_improvement exactly when iter >= min_iterations_before_early_stop
\* and iter < max_iterations and the best score grew by less than
\* min_score_improvement in this iteration; otherwise stop_reason is left
\* alone and the loop goes to the top of the next iteration, or ends when
\* iter = max_iterations.
C9_StopsExactlyOnSmallImprovement ==
    [][\A p \in Procs :
          EvaluationStep(p) =>
              IF ImprovementRule(req[p])
              THEN /\ req'[p].pc = "build"
                   /\ req'[p].stop_reason = "no_meaningful_improvement"
                   /\ req'[p].iterations_used = req[p].iteration
              ELSE /\ req'[p].stop_reason = "max_iterations"
                   /\ req'[p].pc = IF req[p].iteration < engine.max_iterations
                                   THEN "iteration" ELSE "build"]_vars

\* min = 2, threshold 0.05, max = 5, best 0.80 after iteration 1 and 0.81
\* after iteration 2: stopped after iteration 2
C9_Witness ==
    \E p \in Procs :
        /\ req[p].pc = "done"
        /\ engine.max_iterations = 5
        /\ engine.min_iterations_before_early_stop = 2
        /\ engine.min_score_improvement = 50
        /\ Len(req[p].all_evidence) = 2
        /\ req[p].all_evidence[1].score = 800
        /\ req[p].all_evidence[2].score = 810
        /\ req[p].result[1].iterations_used = 2
        /\ req[p].result[1].stop_reason = "no_meaningful_improvement"

\* ------------------------------------------------------------------------
\* Schema caches (C6, C7)
\* ------------------------------------------------------------------------

\* call p sent all its requests before call q sent its first
RanBefore(p, q) ==
    /\ \E i \in DOMAIN http : http[i].proc = p
    /\ \E j \in DOMAIN http : http[j].proc = q
    /\ \A i, j \in DOMAIN http : http[i].proc = p /\ http[j].proc = q => i < j

\* two calls made one after the other have both returned
SequentialPair(p, q) ==
    /\ env.sequential
    /\ req[p].pc = "done"
    /\ req[q].pc = "done"
    /\ RanBefore(p, q)

\* C6 as stated: two sequential process calls on one engine return identical
\* schema_metadata, whatever the endpoint does during either call.
C6_SequentialCallsSameMetadata ==
    \A p, q \in Procs :
        SequentialPair(p, q) =>
            req[q].result[1].schema_metadata = req[p].result[1].schema_metadata

\* C6 amended: when the metadata fetch of the first call succeeded, the next
\* sequential call returns the identical schema_metadata, whatever the
\* endpoint does during it.
C6_SameMetadataAfterSuccessfulFetch ==
    \A p, q \in Procs :
        (SequentialPair(p, q) /\ req[p].result[1].schema_metadata.warning = "absent") =>
            req[q].result[1].schema_metadata = req[p].result[1].schema_metadata

\* the first call fetched the classes A and the properties B, and the second
\* call has returned
C6_Witness ==
    \E p, q \in Procs :
        /\ SequentialPair(p, q)
        /\ req[p].result[1].schema_metadata = SchemaPayload("A", "B")
        /\ req[q].schema_metadata = Some(SchemaPayload("A", "B"))

\* C7: each schema cache is written at most once: a cache that holds a value
\* keeps that value in every later state, under any interleaving of
\* concurrent process calls.
C7_CachesWrittenOnce ==
    [][/\ _schema_metadata_cache # None =>
              _schema_metadata_cache' = _schema_metadata_cache
       /\ _schema_ttl_cache # None =>
              _schema_ttl_cache' = _schema_ttl_cache]_vars

\* ------------------------------------------------------------------------
\* Total time of a call (C11)
\* ------------------------------------------------------------------------

RECURSIVE TimeSpent(_)
TimeSpent(requests) ==
    IF requests = <<>> THEN 0 ELSE Head(requests).latency + TimeSpent(Tail(requests))

RECURSIVE Longest(_)
Longest(requests) ==
    IF requests = <<>> THEN 0 ELSE Max(Head(requests).latency, Longest(Tail(requests)))

RequestsOf(p) == SelectSeq(http, LAMBDA request : request.proc = p)

\* the candidate requests of the last batch of call p: those sent after its
\* last planner call returned
LastBatchRequests(p) ==
    SelectSeq(http, LAMBDA request : /\ request.proc = p
                                     /\ request.source = "candidate"
                                     /\ request.sent >= req[p].generate_returned)

\* C11 as stated: the total time of a process call is at most
\* global_time_budget_sec plus the time of its single longest query.
C11_TotalWithinBudgetPlusLongestQuery ==
    \A p \in Procs :
        req[p].pc = "done" =>
            req[p].total <= engine.global_time_budget_sec + Longest(RequestsOf(p))

\* C11 amended: when no iteration was entered the total time is the time of
\* schema loading; otherwise the last iteration was entered before the
\* deadline and the total time is less than global_time_budget_sec plus the
\* time of that whole iteration: its planner wait plus the time of every
\* candidate request of its batch.
C11_TotalWithinBudgetPlusLastIteration ==
    \A p \in Procs :
        req[p].pc = "done" =>
            IF req[p].planner_candidates = <<>>
            THEN req[p].total = TimeSpent(RequestsOf(p))
            ELSE /\ req[p].plan_start - req[p].start < engine.global_time_budget_sec
                 /\ req[p].total < engine.global_time_budget_sec
                                      + (req[p].generate_returned - req[p].plan_start)
                                      + TimeSpent(LastBatchRequests(p))

\* a call of four seconds against a budget of two: one second of schema
\* loading, then one iteration of a planner call and two candidate queries of
\* one second each
C11_Witness ==
    \E p \in Procs :
        /\ req[p].pc = "done"
        /\ engine.global_time_budget_sec = 2
        /\ req[p].total = 4
        /\ req[p].plan_start - req[p].start = 1
        /\ Len(LastBatchRequests(p)) = 2
        /\ Longest(RequestsOf(p)) = 1

\* ------------------------------------------------------------------------
\* Returned evidence (C12)
\* ------------------------------------------------------------------------

Injections(n, m) ==
    {f \in [1..n -> 1..m] : \A i, j \in 1..n : f[i] = f[j] => i = j}

\* kept holds records of gathered, each taken once, and no record left out
\* scores higher than a record kept
HighestScoring(kept, gathered) ==
    \E f \in Injections(Len(kept), Len(gathered)) :
        /\ \A i \in DOMAIN kept : kept[i] = gathered[f[i]]
        /\ \A j \in DOMAIN gathered :
              (\A i \in DOMAIN kept : f[i] # j) =>
                  \A i \in DOMAIN kept : gathered[j].score <= kept[i].score

\* C12: the returned evidence has at most top_k records, in non-increasing
\* order of score, and they are the top_k highest-scoring records of all the
\* evidence gathered over the iterations.
C12_EvidenceIsTopK ==
    \A p \in Procs :
        req[p].pc = "done" =>
            LET evidence == req[p].result[1].evidence
                gathered == req[p].all_evidence
            IN  /\ Len(evidence) <= engine.top_k
                /\ Len(evidence) = Min(engine.top_k, Len(gathered))
                /\ \A i, j \in DOMAIN evidence :
                      i < j => evidence[i].score >= evidence[j].score
                /\ HighestScoring(evidence, gathered)

\* four records gathered, the best of them last, and only top_k returned
C12_Witness ==
    \E p \in Procs :
        /\ req[p].pc = "done"
        /\ Len(req[p].all_evidence) = 4
        /\ req[p].all_evidence[4].score = ScoreOne
        /\ \A i \in 1..3 : req[p].all_evidence[i].score < ScoreOne
        /\ Len(req[p].result[1].evidence) = engine.top_k
        /\ req[p].result[1].evidence[1] = req[p].all_evidence[4]

\* ------------------------------------------------------------------------
\* Evidence records (C13)
\* ------------------------------------------------------------------------

Records(evidence) == {evidence[i] : i \in DOMAIN evidence}

\* every record a call has produced so far
EvidenceOf(p) ==
    Records(req[p].evidence) \cup Records(req[p].all_evidence)
        \cup (IF req[p].result = None THEN {} ELSE Records(req[p].result[1].evidence))

\* the validator accepted the query, a request for it was answered, and the
\* answer could be scored
SuccessfulExecution(p, query) ==
    /\ _validate_query(engine, query, query_type(query)).safe
    /\ \E i \in DOMAIN http :
          /\ http[i].proc = p
          /\ http[i].source = "candidate"
          /\ http[i].query = query
          /\ http[i].ok
          /\ ~http[i].malformed

\* C13: an evidence record with an error has score 0 and an empty preview,
\* whether it comes from a validator rejection, an endpoint failure or a
\* scoring failure; the record of a successful execution has no error.
C13_ErrorRecordsAreEmpty ==
    \A p \in Procs :
        \A record \in EvidenceOf(p) :
            /\ record.error # None => record.score = 0 /\ record.preview = <<>>
            /\ SuccessfulExecution(p, record.query) <=> record.error = None

\* one call with a rejection, an endpoint failure, a scoring failure and a
\* success among its records
C13_Witness ==
    \E p \in Procs :
        /\ req[p].pc = "done"
        /\ \E record \in EvidenceOf(p) :
              ~_validate_query(engine, record.query, record.query_type).safe
        /\ \E record \in EvidenceOf(p) : record.error = Some("HTTP Error 500")
        /\ \E record \in EvidenceOf(p) : record.error = Some("AttributeError")
        /\ \E record \in EvidenceOf(p) : record.error = None /\ record.score > 0

\* ------------------------------------------------------------------------
\* Range of scores (C14)
\* ------------------------------------------------------------------------

\* C14: the score of every evidence record lies between 0 and 1, for ASK
\* answers, for SELECT answers of fewer rows than max_rows, as many, and
\* more, for Turtle answers of fewer lines than max_triples, as many, and
\* more, for DESCRIBE answers, and for any number of lexical hits.
C14_ScoreWithinUnitInterval ==
    \A p \in Procs :
        \A record \in EvidenceOf(p) :
            0 <= record.score /\ record.score <= ScoreOne

\* a batch of a SELECT and an ASK, or of a CONSTRUCT and a DESCRIBE, both
\* scored, one of them 1 and the other strictly between 0 and 1
C14_Witness ==
    \E p \in Procs :
        /\ req[p].pc = "done"
        /\ Len(req[p].all_evidence) = 2
        /\ \A i \in 1..2 : req[p].all_evidence[i].error = None
        /\ \E i, j \in 1..2 :
              /\ req[p].all_evidence[i].score = ScoreOne
              /\ req[p].all_evidence[i].query_type \in {"SELECT", "DESCRIBE"}
              /\ req[p].all_evidence[j].score > 0
              /\ req[p].all_evidence[j].score < ScoreOne

\* ------------------------------------------------------------------------
\* Number of iterations (C15)
\* ------------------------------------------------------------------------

StopReasons ==
    {"max_iterations", "no_new_candidates", "no_meaningful_improvement",
     "global_time_budget"}

\* C15: iterations_used never exceeds max_iterations, the value clamped to
\* at least 1, during a call and in the result it returns, whatever reason
\* the loop stops for.
C15_IterationsWithinMax ==
    /\ engine.max_iterations >= 1
    /\ \A p \in Procs :
          /\ req[p].iterations_used <= engine.max_iterations
          /\ req[p].pc = "done" =>
                /\ req[p].result[1].iterations_used <= engine.max_iterations
                /\ req[p].result[1].stop_reason \in StopReasons

\* the loop stopped by the budget at the top of its last turn
C15_Witness ==
    \E p \in Procs :
        /\ req[p].pc = "done"
        /\ engine.max_iterations = 2
        /\ req[p].result[1].iterations_used = 2
        /\ req[p].result[1].stop_reason = "global_time_budget"

\* ------------------------------------------------------------------------
\* Fallback query (C16)
\* ------------------------------------------------------------------------

\* the planner call ended in a timeout or an exception, or its answer holds
\* no query: no item, or blank items only
NothingUsable(future) ==
    \/ future.state \in {"timeout", "raised"}
    \/ /\ future.state = "returned"
       /\ \A i \in DOMAIN future.content : Strip(future.content[i]) = <<>>

\* C16: when the planner yields nothing usable, generate_sparql_candidates
\* returns the fallback query alone in iteration 1 and nothing in a later
\* iteration.
C16_FallbackOnlyInFirstIteration ==
    \A p \in Procs :
        (req[p].pc = "merge" /\ NothingUsable(req[p].future[1])) =>
            req[p].planner_candidates[req[p].iteration] =
                IF req[p].iteration = 1
                THEN <<_fallback_query(engine, req[p].user_query)>>
                ELSE <<>>

\* the planner was of no use in both iterations, the second time by
\* answering too late
C16_Witness ==
    \E p \in Procs :
        /\ req[p].pc = "merge"
        /\ req[p].iteration = 2
        /\ req[p].future[1].state = "timeout"
        /\ req[p].planner_candidates =
              << <<_fallback_query(engine, req[p].user_query)>>, <<>> >>
        /\ req[p].all_candidates[1] = _fallback_query(engine, req[p].user_query)

\* ------------------------------------------------------------------------
\* Endpoint failover (C17)
\* ------------------------------------------------------------------------

\* the requests a step sends
NewRequests == SubSeq(http', Len(http) + 1, Len(http'))

\* the requests are those of one driver call: one query, the endpoint
\* candidates in list order from the first on, each once, none after an
\* answer, and all of them when none answers
OneDriverCall(requests) ==
    /\ Len(requests) <= Len(_endpoint_candidates)
    /\ \A i \in DOMAIN requests :
          /\ requests[i].endpoint = _endpoint_candidates[i]
          /\ requests[i].query = requests[1].query
          /\ requests[i].proc = requests[1].proc
          /\ i < Len(requests) => ~requests[i].ok
    /\ \A i, j \in DOMAIN requests : i # j => requests[i].endpoint # requests[j].endpoint
    /\ ~requests[Len(requests)].ok => Len(requests) = Len(_endpoint_candidates)

\* the record execute_sparql_batch appends is made of the answer of the last
\* request, or carries its error
ReturnsLast(requests) ==
    LET last == requests[Len(requests)]
        evidence == req'[last.proc].evidence
        record == evidence[Len(evidence)]
    IN  last.source = "candidate" =>
            /\ Len(evidence) = Len(req[last.proc].evidence) + 1
            /\ record.query = last.query
            /\ record = IF last.ok
                        THEN Executed(last.query, query_type(last.query),
                                      [ok |-> TRUE, payload |-> last.payload])
                        ELSE QueryEvidence(last.query, query_type(last.query), <<>>, 0,
                                           Some(last.error))

\* C17: for one query the driver tries the endpoint candidates in list
\* order, each at most once, returns the answer of the first candidate that
\* answers without asking a later one, and when every candidate fails it
\* fails with the error of the last one.
C17_FailoverInOrder ==
    [][http' # http => OneDriverCall(NewRequests) /\ ReturnsLast(NewRequests)]_vars

\* both orders of outcome with two endpoint candidates: the first refuses and
\* the second answers; the first refuses and the second times out
C17_Witness ==
    /\ Len(_endpoint_candidates) = 2
    /\ \E i, j \in DOMAIN http :
          /\ i + 1 \in DOMAIN http /\ j + 1 \in DOMAIN http
          /\ http[i].source = "candidate" /\ http[j].source = "candidate"
          /\ http[i].query = http[i + 1].query
          /\ http[j].query = http[j + 1].query
          /\ http[i].query # http[j].query
          /\ ~http[i].ok /\ http[i + 1].ok
          /\ http[i + 1].endpoint = <<"http://", "172.17.0.1", ":7200/x">>
          /\ ~http[j].ok /\ ~http[j + 1].ok
          /\ http[j].error # http[j + 1].error
          /\ \E p \in Procs : \E record \in EvidenceOf(p) :
                record.query = http[j].query /\ record.error = Some(http[j + 1].error)

\* ------------------------------------------------------------------------
\* Progress callback failures (C18)
\* ------------------------------------------------------------------------

\* what a call asked of the endpoint and what it was answered
EndpointCalls(p) ==
    LET requests == RequestsOf(p)
    IN  [i \in DOMAIN requests |->
            [source |-> requests[i].source, query |-> requests[i].query,
             endpoint |-> requests[i].endpoint, ok |-> requests[i].ok]]

\* the events a callback was handed, without what it did with them
Delivered(p) ==
    [i \in DOMAIN req[p].events |->
        [stage |-> req[p].events[i].stage, done |-> req[p].events[i].done,
         payload |-> req[p].events[i].payload]]

BothDone == \A p \in Procs : req[p].pc = "done"

\* C18: two calls that get the same answers from the planner and the
\* endpoint return the same result and make the same planner and endpoint
\* calls, whether the callback is absent, returns, or raises at any stages;
\* two callbacks are handed the same events whatever they raise, so the
\* events after a failing one are delivered.
C18_CallbackFailuresDoNotAffectRetrieval ==
    BothDone =>
        /\ req["call1"].result = req["call2"].result
        /\ req["call1"].prompts = req["call2"].prompts
        /\ EndpointCalls("call1") = EndpointCalls("call2")
        /\ (req["call1"].progress_callback # None /\ req["call2"].progress_callback # None)
              => Delivered("call1") = Delivered("call2")
        /\ \A p \in Procs :
              req[p].progress_callback # None =>
                  req[p].events[Len(req[p].events)].stage = "complete"

\* a call without a callback and a call whose callback raises at every
\* stage, both through two iterations with candidates executed
C18_Witness ==
    /\ BothDone
    /\ req["call1"].progress_callback = None
    /\ req["call2"].progress_callback = Some(Stages)
    /\ Len(req["call2"].events) > 5
    /\ \A i \in DOMAIN req["call2"].events : req["call2"].events[i].raised
    /\ req["call2"].result[1].iterations_used = 2
    /\ Len(req["call2"].result[1].evidence) >= 2
    /\ Len(req["call2"].prompts) = 2

\* ------------------------------------------------------------------------
\* Retrieval never raises (C19)
\* ------------------------------------------------------------------------

\* where a call of process is: not made yet, in schema loading, in the loop,
\* packing the result, returned
SchemaSteps ==
    <<"get_schema_metadata", "run_select_classes", "run_select_properties",
      "store_schema_metadata", "return_schema_metadata", "get_schema_ttl",
      "run_construct_ttl", "store_schema_ttl", "return_schema_ttl">>

LoopSteps == <<"plan", "pool_exit", "merge", "execute", "evaluate", "iteration">>

ProcessSteps ==
    {"idle", "build", "done"} \cup Range(SchemaSteps) \cup Range(LoopSteps)

Position(steps, step) == CHOOSE i \in DOMAIN steps : steps[i] = step

\* how far a call has come: a number that is at most StepsBound. A batch has
\* at most query_candidates + lexical_max_candidates queries.
StepsPerIteration ==
    Len(SchemaSteps) + engine.query_candidates + engine.lexical_max_candidates + 7

StepsBound == (engine.max_iterations + 1) * StepsPerIteration + 1

StepsDone(r) ==
    IF r.pc = "idle" THEN 0
    ELSE IF r.pc \in Range(SchemaSteps) THEN Position(SchemaSteps, r.pc)
    ELSE IF r.pc = "build" THEN StepsBound - 1
    ELSE IF r.pc = "done" THEN StepsBound
    ELSE r.iteration * StepsPerIteration
            + (IF r.pc = "plan" THEN 1
               ELSE IF r.pc = "pool_exit" THEN 2
               ELSE IF r.pc = "merge" THEN 3
               ELSE IF r.pc = "execute" THEN 3 + r.index
               ELSE IF r.pc = "evaluate" THEN StepsPerIteration - 2
               ELSE StepsPerIteration - 1)

Returns(r) ==
    /\ r.pc = "done"
    /\ r.result # None
    /\ r.result[1].stop_reason \in StopReasons

\* C19: no step of process raises, whatever fails on the way (schema
\* queries, the planner, the validation or the execution of any candidate,
\* the progress callback): every step leads to the next one, nearer to the
\* end by a bounded count, and the last one returns a result with a
\* stop_reason.
C19_ProcessNeverRaises ==
    [][\A p \in Procs :
          req'[p] # req[p] =>
              /\ req'[p].pc \in ProcessSteps
              /\ StepsDone(req[p]) < StepsDone(req'[p])
              /\ StepsDone(req'[p]) <= StepsBound
              /\ req'[p].pc = "done" => Returns(req'[p])]_vars

\* a call that returned after a failed metadata query, a failed TTL query, a
\* rejected candidate, a candidate the endpoint failed on, a planner that
\* raised in iteration 2, and a callback that raised at every event
C19_Witness ==
    \E p \in Procs :
        /\ Returns(req[p])
        /\ \E i \in DOMAIN http : http[i].source = "schema_metadata" /\ ~http[i].ok
        /\ \E i \in DOMAIN http : http[i].source = "schema_ttl" /\ ~http[i].ok
        /\ \E record \in EvidenceOf(p) :
              ~_validate_query(engine, record.query, record.query_type).safe
        /\ \E record \in EvidenceOf(p) : record.error = Some("HTTP Error 500")
        /\ req[p].iteration = 2
        /\ req[p].future[1].state = "raised"
        /\ req[p].events # <<>>
        /\ \A i \in DOMAIN req[p].events : req[p].events[i].raised

\* ------------------------------------------------------------------------
\* First and last event (C20)
\* ------------------------------------------------------------------------

EventsOfStage(r, stage) == {i \in DOMAIN r.events : r.events[i].stage = stage}

\* C20: the events handed to the callback of a call that returned begin
\* with the only start event and end with the only complete event, which is
\* the only event with done = true and whose payload holds the
\* iterations_used, the stop_reason and the number of evidence records of
\* the result; as long as the call has not returned there is no complete
\* event and no event with done = true.
C20_StartFirstCompleteLast ==
    \A p \in Procs :
        LET r == req[p]
            last == Len(r.events)
        IN  r.progress_callback # None =>
                IF r.pc = "done"
                THEN /\ EventsOfStage(r, "start") = {1}
                     /\ EventsOfStage(r, "complete") = {last}
                     /\ last > 1
                     /\ \A i \in DOMAIN r.events : r.events[i].done <=> i = last
                     /\ r.events[last].payload =
                            [iterations_used |-> r.result[1].iterations_used,
                             stop_reason |-> r.result[1].stop_reason,
                             selected_evidence |-> Len(r.result[1].evidence)]
                ELSE /\ EventsOfStage(r, "complete") = {}
                     /\ \A i \in DOMAIN r.events : ~r.events[i].done
                     /\ r.pc # "idle" => EventsOfStage(r, "start") = {1}

\* a call that returned three of the four records it gathered, to a callback
\* that raised at every event
C20_Witness ==
    \E p \in Procs :
        /\ req[p].pc = "done"
        /\ req[p].progress_callback = Some(Stages)
        /\ Len(req[p].all_evidence) = 4
        /\ engine.top_k = 3
        /\ req[p].events[Len(req[p].events)].payload.selected_evidence = 3
        /\ req[p].events[Len(req[p].events)].payload.iterations_used = 2

\* ------------------------------------------------------------------------
\* The validator's acceptance condition (C23)
\* ------------------------------------------------------------------------

\* `limit` stands in the query as a token of its own: a match of the word
\* with a word boundary on both sides, in any letter case
LimitToken(query) ==
    \E i \in 1..Len(query) :
        /\ WordBoundary(query, i)
        /\ MatchAt(query, i, KW_limit)
        /\ WordBoundary(query, i + Len(KW_limit))

LimitTokenRule(query) ==
    query_type(query) \in {"SELECT", "CONSTRUCT"} => LimitToken(query)

\* the i-th candidate of the batch was accepted: it went to the endpoint
AcceptedByValidator(p, i) ==
    /\ req[p].evidence[i].query = req[p].merged[i]
    /\ \E k \in CandidateCalls(p) : http[k].query = req[p].merged[i]

\* C23: the validator accepts a candidate if and only if the four rules hold
\* for it: the length rule, the first-keyword rule, the forbidden-keyword
\* rule and, for SELECT and CONSTRUCT, `limit` occurring as a token and not
\* merely inside a longer identifier.
C23_AcceptedIffFourRules ==
    \A p \in Procs :
        req[p].pc \in {"execute", "evaluate"} =>
            \A i \in DOMAIN req[p].evidence :
                AcceptedByValidator(p, i) <=>
                    /\ LengthRule(req[p].merged[i])
                    /\ FirstKeywordRule(req[p].merged[i])
                    /\ ForbiddenKeywordRule(req[p].merged[i])
                    /\ LimitTokenRule(req[p].merged[i])

\* what the code accepts: the same with `limit` as a substring
C23_AcceptedIffRulesAsChecked ==
    \A p \in Procs :
        req[p].pc \in {"execute", "evaluate"} =>
            \A i \in DOMAIN req[p].evidence :
                AcceptedByValidator(p, i) <=> SatisfiesValidatorRules(req[p].merged[i])

\* ------------------------------------------------------------------------
\* DESCRIBE with allow_describe off (C24)
\* ------------------------------------------------------------------------

\* the i-th candidate of the batch begins with DESCRIBE, is within the
\* length limit and has been handled
DescribeCandidate(p, i) ==
    /\ req[p].pc \in {"execute", "evaluate"}
    /\ i \in DOMAIN req[p].evidence
    /\ query_type(req[p].merged[i]) = "DESCRIBE"
    /\ LengthRule(req[p].merged[i])

\* the candidate was rejected with the given reason and no request carries it
RejectedWithReason(p, i, reason) ==
    /\ req[p].evidence[i].query = req[p].merged[i]
    /\ req[p].evidence[i].error = Some(reason)
    /\ req[p].evidence[i].score = 0
    /\ \A k \in DOMAIN http : http[k].query # req[p].merged[i]

\* C24 as stated: with allow_describe = false a candidate beginning with
\* DESCRIBE is rejected, is never sent to the endpoint, and the reason names
\* the allowed types in the order SELECT, ASK, CONSTRUCT.
C24_DescribeRejectedInStatedOrder ==
    \A p \in Procs :
        ~engine.allow_describe =>
            \A i \in DOMAIN req[p].evidence :
                DescribeCandidate(p, i) =>
                    RejectedWithReason(p, i, "Only SELECT, ASK, CONSTRUCT are allowed")

\* C24 amended: with allow_describe = false a candidate beginning with
\* DESCRIBE is rejected, is never sent to the endpoint, and the reason names
\* the allowed types in sorted order: ASK, CONSTRUCT, SELECT.
C24_DescribeRejectedInSortedOrder ==
    \A p \in Procs :
        ~engine.allow_describe =>
            \A i \in DOMAIN req[p].evidence :
                DescribeCandidate(p, i) =>
                    RejectedWithReason(p, i, "Only ASK, CONSTRUCT, SELECT are allowed")

\* a batch of a DESCRIBE and a CONSTRUCT candidate has been executed with
\* allow_describe off: the first was rejected, the second was sent
C24_Witness ==
    \E p \in Procs :
        /\ ~engine.allow_describe
        /\ req[p].pc = "evaluate"
        /\ Len(req[p].merged) >= 2
        /\ req[p].merged[1] = Q_Describe
        /\ req[p].merged[2] = Q_Construct
        /\ DescribeCandidate(p, 1)
        /\ req[p].evidence[1].error # None
        /\ req[p].evidence[2].error = None
        /\ \E k \in CandidateCalls(p) : http[k].query = Q_Construct

\* ------------------------------------------------------------------------
\* A query that fails on every endpoint candidate (C28)
\* ------------------------------------------------------------------------

\* this step is a turn of p's batch in which every endpoint candidate was
\* asked and none answered
FailedOnEveryEndpoint(p) ==
    /\ req[p].pc = "execute"
    /\ http' # http
    /\ Len(NewRequests) = Len(_endpoint_candidates)
    /\ \A i \in DOMAIN NewRequests : NewRequests[i].proc = p /\ ~NewRequests[i].ok

\* the one record such a turn adds, and the batch going on with the next
\* candidate
RecordedAndBatchGoesOn(p) ==
    LET query == req[p].merged[req[p].index]
        last == NewRequests[Len(NewRequests)]
    IN  /\ req'[p].evidence =
               Append(req[p].evidence,
                      QueryEvidence(query, query_type(query), <<>>, 0, Some(last.error)))
        /\ req'[p].index = req[p].index + 1
        /\ req'[p].merged = req[p].merged
        /\ req'[p].pc = "execute"
        /\ req'[p].stop_reason = req[p].stop_reason

HasFailedQuery(evidence) ==
    \E i \in DOMAIN evidence : evidence[i].error # None /\ evidence[i].score = 0

\* the batch is left only for the evaluation, with a record for every
\* candidate in batch order
BatchCompleted(p) ==
    (req[p].pc = "execute" /\ req'[p].pc # "execute") =>
        /\ req'[p].pc = "evaluate"
        /\ Len(req[p].evidence) = Len(req[p].merged)
        /\ \A i \in DOMAIN req[p].merged : req[p].evidence[i].query = req[p].merged[i]
        /\ req'[p].all_evidence = req[p].all_evidence \o req[p].evidence

\* the evaluation after a batch with a failed query decides as after any
\* batch: the next iteration, or the end of the loop by the improvement rule
\* or by the iteration count
EvaluatedAsUsual(p) ==
    (req[p].pc = "evaluate" /\ req'[p].pc # "evaluate" /\ HasFailedQuery(req[p].evidence)) =>
        /\ req'[p].pc \in {"iteration", "build"}
        /\ req'[p].pc = "iteration" <=>
               /\ req[p].iteration < engine.max_iterations
               /\ ~(/\ req[p].iteration >= engine.min_iterations_before_early_stop
                    /\ req'[p].improvement < engine.min_score_improvement)
        /\ req'[p].stop_reason \in {req[p].stop_reason, "no_meaningful_improvement"}

\* C28: a candidate for which every endpoint candidate fails yields one
\* evidence record with score 0 carrying the endpoint error; the remaining
\* candidates of the batch are still executed in order, and the loop goes on
\* to the early-stop evaluation and to later iterations.
C28_FailedQueryDoesNotEndBatchOrLoop ==
    [][\A p \in Procs :
          /\ FailedOnEveryEndpoint(p) => RecordedAndBatchGoesOn(p)
          /\ BatchCompleted(p)
          /\ EvaluatedAsUsual(p)]_vars

\* the first candidate of iteration 1 failed on both endpoint candidates, the
\* second was executed after it, and iteration 2 executed its candidate
C28_Witness ==
    \E p \in Procs :
        /\ req[p].pc = "done"
        /\ Len(_endpoint_candidates) = 2
        /\ req[p].iterations_used = 2
        /\ Len(req[p].all_evidence) = 3
        /\ req[p].all_evidence[1].error = Some("timed out")
        /\ req[p].all_evidence[1].score = 0
        /\ req[p].all_evidence[2].error = None
        /\ req[p].all_evidence[3].query = Q_Ask
        /\ \E i, j, k \in CandidateCalls(p) :
              /\ i < j /\ j < k
              /\ http[i].query = Q_SelectLimit /\ ~http[i].ok
              /\ http[j].query = Q_Construct /\ http[j].ok
              /\ http[k].query = Q_Ask

\* ------------------------------------------------------------------------
\* Clamping of the iteration settings (C29)
\* ------------------------------------------------------------------------

\* C29: whatever pair is configured, the engine's max_iterations is at least
\* 1 and its min_iterations_before_early_stop lies in [1, max_iterations]: a
\* configured value above max_iterations becomes max_iterations, one below 1
\* becomes 1, any other is kept; the start event reports the clamped values.
C29_IterationSettingsClamped ==
    LET configured == pipeline.valves
    IN  /\ engine.max_iterations >= 1
        /\ engine.max_iterations = Max(1, configured.max_iterations)
        /\ engine.min_iterations_before_early_stop >= 1
        /\ engine.min_iterations_before_early_stop <= engine.max_iterations
        /\ configured.min_iterations_before_early_stop > engine.max_iterations =>
               engine.min_iterations_before_early_stop = engine.max_iterations
        /\ configured.min_iterations_before_early_stop < 1 =>
               engine.min_iterations_before_early_stop = 1
        /\ configured.min_iterations_before_early_stop \in 1..engine.max_iterations =>
               engine.min_iterations_before_early_stop =
                   configured.min_iterations_before_early_stop
        /\ \A p \in Procs : \A i \in DOMAIN req[p].events :
              req[p].events[i].stage = "start" =>
                  req[p].events[i].payload =
                      [max_iterations |-> engine.max_iterations,
                       min_iterations_before_early_stop |->
                           engine.min_iterations_before_early_stop]

\* a call has reported its settings on an engine configured with
\* max_iterations = 2 and min_iterations_before_early_stop = 4
C29_Witness ==
    \E p \in Procs :
        /\ pipeline.valves.max_iterations = 2
        /\ pipeline.valves.min_iterations_before_early_stop = 4
        /\ engine.min_iterations_before_early_stop = 2
        /\ req[p].pc = "done"
        /\ req[p].events[1].stage = "start"
        /\ req[p].events[1].payload.min_iterations_before_early_stop = 2

\* ------------------------------------------------------------------------
\* An iteration without new candidates (C30)
\* ------------------------------------------------------------------------

\* p is about to merge the candidates of its iteration, and each of them,
\* from the planner or from the lexical generator, is in the seen-set
NoCandidateSurvives(p) ==
    /\ req[p].pc = "merge"
    /\ LET lexical_candidates ==
               IF engine.enable_lexical_search
               THEN _build_lexical_candidates(engine, req[p].user_query) ELSE <<>>
       IN  \A query \in Range(req[p].planner_candidates[req[p].iteration] \o lexical_candidates) :
               normalize_query(query) \in req[p].seen_queries

\* the two events the step hands to the callback
ReportsNoNewCandidates(p) ==
    LET before == Len(req[p].events)
        events == req'[p].events
    IN  /\ Len(events) = before + 2
        /\ SubSeq(events, 1, before) = req[p].events
        /\ events[before + 1].stage = "iteration_candidates"
        /\ events[before + 1].payload.new_candidates = 0
        /\ events[before + 1].payload.iteration = req[p].iteration
        /\ events[before + 2].stage = "iteration_stop"
        /\ events[before + 2].payload = [iteration |-> req[p].iteration]

\* C30: when no planner or lexical candidate of an iteration survives the
\* deduplication against the seen-set, the loop ends at once with stop_reason
\* no_new_candidates: the step sends nothing to the endpoint, evaluates no
\* early stop, leaves best_score and the evidence list as they were, and
\* emits iteration_candidates with new_candidates = 0 and then
\* iteration_stop; the result is built next.
C30_NoNewCandidatesEndsLoop ==
    [][\A p \in Procs :
          (NoCandidateSurvives(p) /\ req'[p] # req[p]) =>
              /\ req'[p].pc = "build"
              /\ req'[p].stop_reason = "no_new_candidates"
              /\ req'[p].iterations_used = req[p].iteration
              /\ http' = http
              /\ req'[p].best_score = req[p].best_score
              /\ req'[p].improvement = req[p].improvement
              /\ req'[p].all_evidence = req[p].all_evidence
              /\ req'[p].all_candidates = req[p].all_candidates
              /\ req[p].progress_callback # None => ReportsNoNewCandidates(p)]_vars

\* the planner repeated in iteration 2 the query of iteration 1: the call
\* ended there, after the one request of iteration 1
C30_Witness ==
    \E p \in Procs :
        /\ req[p].pc = "done"
        /\ req[p].stop_reason = "no_new_candidates"
        /\ req[p].iterations_used = 2
        /\ Len(req[p].planner_candidates) = 2
        /\ req[p].planner_candidates[2] # <<>>
        /\ Len(req[p].all_evidence) = 1
        /\ Cardinality(CandidateCalls(p)) = 1
        /\ \E i \in DOMAIN req[p].events :
              /\ req[p].events[i].stage = "iteration_candidates"
              /\ req[p].events[i].payload.new_candidates = 0
              /\ req[p].events[i + 1].stage = "iteration_stop"

\* ------------------------------------------------------------------------
\* Streaming: retrieval before the answer (C21)
\* ------------------------------------------------------------------------

\* the generator has built its final prompt or yielded an answer chunk
AnswerStageBegun ==
    \/ pipe.llm_calls # <<>>
    \/ \E i \in DOMAIN pipe.yielded : pipe.yielded[i].kind = "chunk"

\* C21: in streaming mode no answer chunk is yielded and no final prompt is
\* built before the retrieval worker has finished and every progress event
\* it enqueued has been dequeued; the prompt is built from the result, or
\* the error, that the worker's _run_retrieval returned and the worker
\* stored; no progress item is yielded after a chunk.
C21_AnswerAfterRetrievalAndEvents ==
    (pipe.stream /\ AnswerStageBegun) =>
        /\ pipe.worker = "finished"
        /\ pipe.retrieval_done
        /\ pipe.dequeued = Len(req[Caller].events)
        /\ pipe.run # None
        /\ req[Caller].pc = "done" => pipe.run[1].retrieval = req[Caller].result
        /\ Len(pipe.llm_calls) = 1
        /\ pipe.llm_calls[1].prompt =
               _build_prompt_with_retrieval(pipe.run[1].retrieval,
                                            pipe.run[1].retrieval_error,
                                            pipe.user_message)
        /\ \A i, j \in DOMAIN pipe.yielded :
              (i < j /\ pipe.yielded[i].kind = "chunk") => pipe.yielded[j].kind = "chunk"

\* a streamed answer after a retrieval that returned evidence: the four
\* visible events of the call came first, then the two chunks
C21_Witness ==
    /\ pipe.stream
    /\ pipe.pc = "finished"
    /\ pipe.emit_events /\ ~pipe.emit_text
    /\ req[Caller].pc = "done"
    /\ Len(req[Caller].events) = 7
    /\ Len(pipe.yielded) = 6
    /\ pipe.yielded[4].kind = "status"
    /\ pipe.yielded[4].value.stage = "complete"
    /\ pipe.yielded[5] = Value("chunk", "a")
    /\ pipe.llm_calls[1].prompt.evidence = "context"

\* ------------------------------------------------------------------------
\* Closing the streaming generator (C22)
\* ------------------------------------------------------------------------

\* the generator was closed after its worker thread had been started
ClosedWhileRetrieving == pipe.pc = "closed" /\ pipe.worker # "none"

\* C22: once the streaming generator has been closed, both stages are
\* aborted: the retrieval worker does not go on (no further planner call and
\* no further endpoint request comes from it) and no answer streaming
\* starts.
C22_CloseAbortsBothStages ==
    [][ClosedWhileRetrieving =>
          /\ http' = http
          /\ req'[Caller].prompts = req[Caller].prompts
          /\ pipe'.llm_calls = pipe.llm_calls
          /\ pipe'.yielded = pipe.yielded]_vars

\* the part of C22 that holds: after the close no final prompt is built and
\* nothing more is yielded
C22_NoAnswerAfterClose ==
    [][pipe.pc = "closed" =>
          /\ pipe'.pc = "closed"
          /\ pipe'.llm_calls = pipe.llm_calls
          /\ pipe'.yielded = pipe.yielded]_vars

\* the worker went on to the end of process after the generator had been
\* closed at its first status event, before any planner call
C22_LeakedWorker ==
    /\ pipe.pc = "closed"
    /\ Len(pipe.yielded) = 1
    /\ pipe.worker = "finished"
    /\ req[Caller].pc = "done"
    /\ pipe.dequeued < Len(req[Caller].events)
    /\ \E i \in DOMAIN http : http[i].source = "candidate"

\* ------------------------------------------------------------------------
\* Missing configuration (C25)
\* ------------------------------------------------------------------------

ConfigMissing == pipeline.valves.endpoint = <<>> \/ pipeline.valves.LLM_BASE_URL = ""

\* C25: after any sequence of valve updates, while SPARQL_BASE_URL or
\* LLM_BASE_URL is empty no engine is in place, and a pipe call reports the
\* missing configuration to its caller; it does not run the retrieval with an
\* engine built from earlier settings.
C25_NoEngineWhileConfigMissing ==
    ConfigMissing =>
        /\ engine = None
        /\ pipeline.client = None
        /\ pipe.entry = "pipe" =>
               /\ pipe.pc = "raised"
               /\ pipe.result = Some(Exception("Oops! Forgot to initialize valves!"))
               /\ pipe.worker = "none"
               /\ http = <<>>

\* the part of C25 that holds: a Pipeline whose valves never had both URLs
\* has no engine, and its pipe call raises
C25_NoEngineBeforeFirstCompleteValves ==
    (engine = None \/ pipeline.client = None) =>
        /\ engine = None /\ pipeline.client = None
        /\ ConfigMissing
        /\ pipe.entry = "pipe" =>
               /\ pipe.pc = "raised"
               /\ pipe.result = Some(Exception("Oops! Forgot to initialize valves!"))
               /\ http = <<>>

\* a pipe call answered from the ontology by the engine of earlier valves
\* while SPARQL_BASE_URL is empty
C25_StaleEngineUsed ==
    /\ pipeline.valves.endpoint = <<>>
    /\ pipe.entry = "pipe"
    /\ pipe.pc = "returned"
    /\ http # <<>>
    /\ \A i \in DOMAIN http : http[i].endpoint = engine.endpoint

\* ------------------------------------------------------------------------
\* A retrieval that raises (C26)
\* ------------------------------------------------------------------------

\* the call of process inside _run_retrieval raised: _run_retrieval ended
\* otherwise than with the result of process
RetrievalAborted ==
    /\ pipe.run # None
    /\ pipe.run[1].retrieval = None

\* the final prompt tells the LLM that there is no evidence to go by
MarksEvidenceUnavailable(prompt) ==
    /\ prompt.evidence \in {"SPARQL RETRIEVAL UNAVAILABLE", "NO RELEVANT EVIDENCE"}
    /\ prompt.context = <<>>

\* pipe has come to its end, or to the answer stage of its generator
PipeAnswered ==
    /\ pipe.entry = "pipe"
    /\ pipe.pc \in {"returned", "stream", "yield_chunk", "finished", "raised"}

\* C26: when process raises inside _run_retrieval, exactly one error event
\* is handed to the callback, _run_retrieval returns the empty retrieval
\* object together with the text of the error and does not itself raise,
\* whatever the callback does; no complete event is emitted, and the
\* pipeline goes on to its one LLM call with a prompt that marks the
\* evidence as unavailable.
C26_AbortedRetrievalIsReturned ==
    RetrievalAborted =>
        /\ pipe.run[1].exception = None
        /\ pipe.run[1].retrieval_error # None
        /\ pipe.progress_callback # None =>
               Cardinality(EventsOfStage(req[Caller], "error")) = 1
        /\ EventsOfStage(req[Caller], "complete") = {}
        /\ pipe.entry = "_run_retrieval" =>
               pipe.result = Some(Value("tuple", pipe.run[1]))
        /\ PipeAnswered =>
               /\ Len(pipe.llm_calls) = 1
               /\ MarksEvidenceUnavailable(pipe.llm_calls[1].prompt)

\* the part of C26 that holds: the same for every callback that returns
\* from the error event, as the callbacks of pipe do
C26_AbortedRetrievalWithReturningCallback ==
    (RetrievalAborted /\ (pipe.progress_callback = None
                          \/ "error" \notin pipe.progress_callback[1])) =>
        /\ pipe.run[1].exception = None
        /\ pipe.run[1].retrieval_error # None
        /\ pipe.progress_callback # None =>
               Cardinality(EventsOfStage(req[Caller], "error")) = 1
        /\ EventsOfStage(req[Caller], "complete") = {}
        /\ pipe.entry = "_run_retrieval" =>
               pipe.result = Some(Value("tuple", pipe.run[1]))
        /\ PipeAnswered =>
               /\ Len(pipe.llm_calls) = 1
               /\ MarksEvidenceUnavailable(pipe.llm_calls[1].prompt)

\* ------------------------------------------------------------------------
\* A failing final LLM call (C27)
\* ------------------------------------------------------------------------

\* the final LLM call was made and has failed: chat_text raised, or the
\* generator of stream_text raised after the chunks it had to give
LLMCallFailed ==
    /\ pipe.llm_calls # <<>>
    /\ pipe.llm_calls[1].outcome.error # None
    /\ pipe.pc \in {"returned", "raised"}

\* C27: a failure of the final LLM call, without and with streaming, reaches
\* the caller as a readable text and not as an exception, and the call is
\* made exactly once.
C27_LLMFailureReturnedAsText ==
    LLMCallFailed =>
        /\ Len(pipe.llm_calls) = 1
        /\ pipe.result # None
        /\ pipe.result[1].kind = "str"
        /\ pipe.result[1].value =
               <<"Error calling LLM: ", pipe.llm_calls[1].outcome.error[1]>>

\* the part of C27 that holds: without streaming
C27_LLMFailureReturnedAsTextWithoutStreaming ==
    (LLMCallFailed /\ ~pipe.stream) =>
        /\ Len(pipe.llm_calls) = 1
        /\ pipe.result # None
        /\ pipe.result[1].kind = "str"
        /\ pipe.result[1].value =
               <<"Error calling LLM: ", pipe.llm_calls[1].outcome.error[1]>>

\* with streaming the exception of stream_text reached the consumer of the
\* generator, after one chunk
C27_StreamFailureRaised ==
    /\ pipe.stream
    /\ pipe.pc = "raised"
    /\ Len(pipe.llm_calls) = 1
    /\ pipe.chunks = 1
    /\ pipe.result = Some(Exception("Connection reset"))
\* ------------------------------------------------------------------------
\* The order of the events of the loop (C31)
\* ------------------------------------------------------------------------

\* the closed set of stages: the stages process emits, and the stage the
\* caller of process emits when the retrieval failed as a whole
ClosedStages == Stages \cup {"error"}

\* the positions of the events of a stage that report iteration k
IterationEvents(r, stage, k) ==
    {i \in EventsOfStage(r, stage) : r.events[i].payload.iteration = k}

\* the iteration that is running when the event at position i is emitted:
\* the number of iteration_start events up to i
IterationAt(r, i) ==
    Cardinality({j \in EventsOfStage(r, "iteration_start") : j <= i})

\* C31: the events of a call follow the loop: every stage is of the closed
\* set; the iteration_start events are numbered 1, 2, 3, ... without gaps;
\* the events of iteration k are emitted while iteration k runs, in the order
\* iteration_start(k), iteration_candidates(k), iteration_executed(k), each
\* at most once; iteration_executed(k) follows only an
\* iteration_candidates(k) that reported new_candidates > 0; schema_metadata,
\* and schema_ttl when the full schema is enabled, precede
\* iteration_start(1).
C31_EventsFollowLoopProtocol ==
    \A p \in Procs :
        LET r == req[p]
            starts == EventsOfStage(r, "iteration_start")
            inLoop == EventsOfStage(r, "iteration_start")
                          \cup EventsOfStage(r, "iteration_candidates")
                          \cup EventsOfStage(r, "iteration_executed")
                          \cup EventsOfStage(r, "iteration_stop")
        IN  /\ \A i \in DOMAIN r.events : r.events[i].stage \in ClosedStages
            /\ \A i \in inLoop :
                  /\ r.events[i].payload.iteration = IterationAt(r, i)
                  /\ r.events[i].payload.iteration \in 1..engine.max_iterations
            /\ \A k \in 1..engine.max_iterations :
                  LET s == IterationEvents(r, "iteration_start", k)
                      c == IterationEvents(r, "iteration_candidates", k)
                      e == IterationEvents(r, "iteration_executed", k)
                  IN  /\ Cardinality(s) <= 1
                      /\ Cardinality(c) <= 1
                      /\ Cardinality(e) <= 1
                      /\ \A j \in c : \E i \in s : i < j
                      /\ \A j \in e :
                            \E i \in c : /\ i < j
                                         /\ r.events[i].payload.new_candidates > 0
            /\ \A i \in starts :
                  /\ \E m \in EventsOfStage(r, "schema_metadata") : m < i
                  /\ engine.include_full_schema_ttl =>
                        \E t \in EventsOfStage(r, "schema_ttl") : t < i
                  /\ ~engine.include_full_schema_ttl =>
                        EventsOfStage(r, "schema_ttl") = {}

\* a call of two iterations: the first executed its candidates, the second
\* found no new candidate and executed nothing
C31_Witness ==
    \E p \in Procs :
        LET r == req[p]
        IN  /\ r.pc = "done"
            /\ IterationEvents(r, "iteration_start", 2) # {}
            /\ IterationEvents(r, "iteration_executed", 1) # {}
            /\ \E i \in IterationEvents(r, "iteration_candidates", 2) :
                  r.events[i].payload.new_candidates = 0
            /\ IterationEvents(r, "iteration_executed", 2) = {}
            /\ r.result[1].stop_reason = "no_new_candidates"

\* a call with the full schema enabled that has begun its first iteration
C31_WitnessSchemaTtl ==
    \E p \in Procs :
        /\ engine.include_full_schema_ttl
        /\ IterationEvents(req[p], "iteration_start", 1) # {}
        /\ EventsOfStage(req[p], "schema_ttl") # {}
\* ------------------------------------------------------------------------
\* Overlapping calls (C32)
\* ------------------------------------------------------------------------

\* what a call made alone returns in the scenario of overlapping calls: the
\* planner's query, sent once and scored; in a loop of two iterations the
\* planner repeats itself and the loop ends for want of new candidates
AloneOutcome ==
    LET out == _run_with_endpoint_retry(<<Ok(Bindings(<<0, 0>>), 0)>>)
    IN  [queries |-> <<Q_SelectLimit>>,
         evidence |-> <<Executed(Q_SelectLimit, "SELECT", out)>>,
         iterations_used |-> engine.max_iterations,
         stop_reason |-> IF engine.max_iterations = 1 THEN "max_iterations"
                         ELSE "no_new_candidates"]

Outcome(p) ==
    [queries |-> req[p].result[1].queries,
     evidence |-> req[p].result[1].evidence,
     iterations_used |-> req[p].result[1].iterations_used,
     stop_reason |-> req[p].result[1].stop_reason]

\* the call ran with no other call begun
RanAlone(p) == \A q \in Procs \ {p} : req[q].pc = "idle"

\* the candidates of call p that have been through execute_sparql_batch
ExecutedBy(p) ==
    Len(req[p].all_evidence)
        + (IF req[p].pc = "execute" THEN Len(req[p].evidence) ELSE 0)

C32_WitnessAlone ==
    \E p \in Procs : req[p].pc = "done" /\ RanAlone(p) /\ Outcome(p) = AloneOutcome
\* ------------------------------------------------------------------------
\* One evidence record per candidate (C33)
\* ------------------------------------------------------------------------

\* the call stands between two batches, or has left the loop
BetweenBatches(r) ==
    r.pc \in {"evaluate", "iteration", "plan", "pool_exit", "merge", "build", "done"}

\* the record is the one the candidate yields: its query and type, and
\* either the validator's reason with score 0, or an endpoint failure with
\* score 0, or a score and a preview without error
RecordOf(record, query) ==
    LET checked == _validate_query(engine, query, query_type(query))
    IN  /\ record.query = query
        /\ record.query_type = query_type(query)
        /\ IF ~checked.safe
           THEN /\ record.error = Some(checked.reason)
                /\ record.score = 0
                /\ record.preview = <<>>
           ELSE \/ record.error # None /\ record.score = 0 /\ record.preview = <<>>
                \/ record.error = None /\ record.preview # <<>>

\* the candidates of a batch that the planner proposed stand before those
\* only the lexical generator built
PlannerBeforeLexical(r) ==
    LET planner == {normalize_query(query) :
                        query \in Range(r.planner_candidates[r.iteration])}
    IN  \A i, j \in DOMAIN r.merged :
            (i < j /\ normalize_query(r.merged[j]) \in planner)
                => normalize_query(r.merged[i]) \in planner

\* C33: between two batches and after the loop the evidence list and the
\* candidate list have the same length, and the i-th evidence record is the
\* record of the i-th candidate, whether it was rejected, failed or was
\* scored; while a batch is executed the records follow the candidates one
\* by one; within a batch the planner's candidates stand before the lexical
\* ones.
C33_OneRecordPerCandidateInOrder ==
    \A p \in Procs :
        LET r == req[p]
            records == r.all_evidence
                           \o (IF r.pc = "execute" THEN r.evidence ELSE <<>>)
        IN  /\ BetweenBatches(r) => Len(r.all_evidence) = Len(r.all_candidates)
            /\ r.pc = "execute" =>
                  /\ Len(records) = Len(r.all_candidates) - Len(r.merged) + r.index - 1
                  /\ PlannerBeforeLexical(r)
            /\ Len(records) <= Len(r.all_candidates)
            /\ \A i \in DOMAIN records : RecordOf(records[i], r.all_candidates[i])

\* a call that returned after two batches: the first held a rejected planner
\* candidate before two lexical candidates, one of which failed at the
\* endpoint, the second a new planner candidate
C33_Witness ==
    \E p \in Procs :
        LET r == req[p]
        IN  /\ r.pc = "done"
            /\ engine.enable_lexical_search
            /\ Len(r.all_candidates) = 5
            /\ Len(r.all_evidence) = 5
            /\ r.all_candidates[2] = Q_Update
            /\ r.all_evidence[2].error = Some("Only ASK, CONSTRUCT, DESCRIBE, SELECT are allowed")
            /\ r.all_candidates[3] = _build_lexical_candidates(engine, r.user_query)[1]
            /\ r.all_evidence[3].error = Some("HTTP Error 500")
            /\ r.all_evidence[4].error = None
            /\ r.all_candidates[5] = Q_Construct
\* ------------------------------------------------------------------------
\* The best score never decreases (C34)
\* ------------------------------------------------------------------------

\* call p goes on: the step is not the start of the call
GoesOn(p) == req[p].pc # "idle"

\* C34: over every step of a call best_score does not decrease, and the
\* improvement computed by an evaluation is at least 0; with
\* min_score_improvement = 0, or with min_iterations_before_early_stop =
\* max_iterations, the call never stops for no_meaningful_improvement.
C34_BestScoreNeverDecreases ==
    [][\A p \in Procs :
          /\ GoesOn(p) => req'[p].best_score >= req[p].best_score
          /\ EvaluationStep(p) =>
                /\ req'[p].improvement = req'[p].best_score - req[p].best_score
                /\ req'[p].improvement >= 0
          /\ (\/ engine.min_score_improvement = 0
              \/ engine.min_iterations_before_early_stop = engine.max_iterations)
                => req'[p].stop_reason # "no_meaningful_improvement"]_vars

\* with min_score_improvement = 0 a call went through its three iterations
\* although its second and third batch scored below its first
C34_Witness ==
    \E p \in Procs :
        /\ req[p].pc = "done"
        /\ engine.min_score_improvement = 0
        /\ engine.min_iterations_before_early_stop = 1
        /\ req[p].result[1].iterations_used = 3
        /\ req[p].result[1].stop_reason = "max_iterations"
        /\ Len(req[p].all_evidence) = 3
        /\ req[p].all_evidence[1].score = 800
        /\ req[p].all_evidence[2].score = 0
        /\ req[p].all_evidence[3].score = 50
        /\ req[p].best_score = 800
        /\ req[p].improvement = 0
\* ------------------------------------------------------------------------
\* stop_reason and iterations_used agree (C35)
\* ------------------------------------------------------------------------

\* the planner was asked for candidates in iteration k
PlannedIn(r, k) == \E i \in DOMAIN r.prompts : r.prompts[i].iteration = k

\* the batch of iteration k was executed and held at least one candidate
ExecutedIn(r, k) ==
    \E i \in IterationEvents(r, "iteration_executed", k) :
        r.events[i].payload.executed_queries >= 1

\* C35: a call returns one of the four stop reasons and iterations_used >= 1;
\* max_iterations comes with iterations_used = max_iterations and a last
\* iteration that executed at least one candidate;
\* no_meaningful_improvement comes with
\* min_iterations_before_early_stop <= iterations_used < max_iterations;
\* global_time_budget, found at the top of iteration k, comes with
\* iterations_used = k although iteration k planned and executed nothing.
C35_StopReasonAndIterationsAgree ==
    \A p \in Procs :
        req[p].pc = "done" =>
            LET r == req[p]
                stop_reason == r.result[1].stop_reason
                iterations_used == r.result[1].iterations_used
            IN  /\ stop_reason \in StopReasons
                /\ iterations_used >= 1
                /\ stop_reason = "max_iterations" =>
                      /\ iterations_used = engine.max_iterations
                      /\ ExecutedIn(r, iterations_used)
                /\ stop_reason = "no_meaningful_improvement" =>
                      /\ engine.min_iterations_before_early_stop <= iterations_used
                      /\ iterations_used < engine.max_iterations
                      /\ ExecutedIn(r, iterations_used)
                /\ stop_reason = "global_time_budget" =>
                      /\ iterations_used = r.iteration
                      /\ IterationEvents(r, "iteration_start", iterations_used) # {}
                      /\ ~PlannedIn(r, iterations_used)
                      /\ IterationEvents(r, "iteration_candidates", iterations_used) = {}
                      /\ IterationEvents(r, "iteration_executed", iterations_used) = {}
                      /\ \A k \in 1..(iterations_used - 1) : PlannedIn(r, k)
                /\ stop_reason = "no_new_candidates" =>
                      /\ PlannedIn(r, iterations_used)
                      /\ ~ExecutedIn(r, iterations_used)

\* a call stopped by the budget at the top of its third iteration: it
\* returns iterations_used = 3 after two planner calls and two batches
C35_Witness ==
    \E p \in Procs :
        /\ req[p].pc = "done"
        /\ req[p].result[1].stop_reason = "global_time_budget"
        /\ req[p].result[1].iterations_used = 3
        /\ Len(req[p].prompts) = 2
        /\ ExecutedIn(req[p], 2)

\* a call that stopped for want of improvement after its second iteration,
\* the first at which it may stop early
C35_WitnessEarlyStop ==
    \E p \in Procs :
        /\ req[p].pc = "done"
        /\ req[p].result[1].stop_reason = "no_meaningful_improvement"
        /\ req[p].result[1].iterations_used = 2
        /\ engine.min_iterations_before_early_stop = 2
\* ------------------------------------------------------------------------
\* The iteration_stop event (C36)
\* ------------------------------------------------------------------------

\* C36: a call emits at most one iteration_stop event, and nothing but the
\* complete event after it; a call that returned has emitted one exactly
\* when its stop_reason is not max_iterations, as the event just before
\* complete, and with iteration = iterations_used.
C36_IterationStopOnceBeforeComplete ==
    \A p \in Procs :
        LET r == req[p]
            stops == EventsOfStage(r, "iteration_stop")
            last == Len(r.events)
        IN  r.progress_callback # None =>
                /\ Cardinality(stops) <= 1
                /\ \A i \in stops :
                      /\ i >= last - 1
                      /\ i = last - 1 => r.events[last].stage = "complete"
                      /\ r.events[i].payload.iteration = r.iterations_used
                /\ r.pc = "done" =>
                      /\ stops # {} <=> r.result[1].stop_reason # "max_iterations"
                      /\ stops \subseteq {last - 1}

\* a call that returned after stopping for want of improvement: the
\* iteration_stop event of iteration 2 stands just before complete
C36_Witness ==
    \E p \in Procs :
        LET r == req[p]
            last == Len(r.events)
        IN  /\ r.pc = "done"
            /\ r.result[1].stop_reason = "no_meaningful_improvement"
            /\ r.events[last].stage = "complete"
            /\ r.events[last - 1].stage = "iteration_stop"
            /\ r.events[last - 1].payload.iteration = 2
            /\ r.result[1].iterations_used = 2

\* a call that ran out of iterations returned without an iteration_stop event
C36_WitnessNoStopEvent ==
    \E p \in Procs :
        /\ req[p].pc = "done"
        /\ req[p].result[1].stop_reason = "max_iterations"
        /\ engine.max_iterations = 3
        /\ EventsOfStage(req[p], "iteration_stop") = {}
\* ------------------------------------------------------------------------
\* Lexical candidates are new in iteration 1 only (C37)
\* ------------------------------------------------------------------------

\* the step of call p that merges the candidates of an iteration
MergeStep(p) == req[p].pc = "merge" /\ req'[p].pc # "merge"

\* what the lexical generator returns for the question of the call
LexicalOf(r) ==
    IF engine.enable_lexical_search
    THEN _build_lexical_candidates(engine, r.user_query) ELSE <<>>

Normalized(queries) == {normalize_query(query) : query \in Range(queries)}

\* C37: the iteration_candidates events of a call all report the same
\* number of lexical candidates, those the generator returns for the
\* question; at the merge of an iteration >= 2 every lexical candidate is in
\* the seen-set already, so that the batch holds candidates of the planner
\* only, and when the planner's candidates are all in the seen-set too the
\* loop ends with no_new_candidates and no request, lexical search enabled
\* or not.
C37_LexicalCandidatesNewOnlyInFirstIteration ==
    [][\A p \in Procs :
          (MergeStep(p) /\ req[p].iteration >= 2) =>
              LET r == req[p]
                  planner == r.planner_candidates[r.iteration]
                  last == Len(req'[p].events)
              IN  /\ Normalized(LexicalOf(r)) \subseteq r.seen_queries
                  /\ Range(req'[p].merged) \subseteq Range(planner)
                  /\ Normalized(req'[p].merged) \cap Normalized(LexicalOf(r)) = {}
                  /\ \A i \in EventsOfStage(req'[p], "iteration_candidates") :
                        req'[p].events[i].payload.lexical_candidates = Len(LexicalOf(r))
                  /\ Normalized(planner) \subseteq r.seen_queries =>
                        /\ req'[p].pc = "build"
                        /\ req'[p].stop_reason = "no_new_candidates"
                        /\ http' = http]_vars

\* with lexical search enabled, a call whose first batch held the lexical
\* candidates ended in iteration 2 with no_new_candidates, the planner
\* having repeated itself
C37_Witness ==
    \E p \in Procs :
        LET r == req[p]
        IN  /\ r.pc = "done"
            /\ engine.enable_lexical_search
            /\ LexicalOf(r) # <<>>
            /\ Range(LexicalOf(r)) \subseteq Range(r.all_candidates)
            /\ r.result[1].iterations_used = 2
            /\ r.result[1].stop_reason = "no_new_candidates"
            /\ \E i \in IterationEvents(r, "iteration_candidates", 2) :
                  /\ r.events[i].payload.lexical_candidates = Len(LexicalOf(r))
                  /\ r.events[i].payload.new_candidates = 0

\* with lexical search enabled, a second batch that holds a new candidate of
\* the planner and no lexical candidate
C37_WitnessPlannerOnly ==
    \E p \in Procs :
        /\ engine.enable_lexical_search
        /\ req[p].pc = "execute"
        /\ req[p].iteration = 2
        /\ Len(req[p].merged) = 1
\* ------------------------------------------------------------------------
\* The candidates the engine builds itself (C38)
\* ------------------------------------------------------------------------

\* the candidate is one the engine built from the question of the call: a
\* lexical candidate, or the fallback query of iteration 1
BuiltByEngine(r, query) ==
    \/ query \in Range(LexicalOf(r))
    \/ query = _fallback_query(engine, r.user_query)

\* the record of a candidate the validator rejected
Rejected(record) ==
    /\ record.error # None
    /\ record.error[1] \in {"Query exceeds max_query_chars",
                            "Query contains forbidden operation",
                            "Row/graph returning query must include LIMIT"}
                               \cup {"Only " \o JoinNames(SortedTypeNames, allowed_types(engine))
                                         \o " are allowed"}

\* C38: every candidate the engine builds itself from the question, lexical
\* candidate or fallback query, is accepted by the validator, is sent to the
\* endpoint when its turn in the batch has come, and never has a rejected
\* evidence record.
C38_OwnCandidatesAccepted ==
    \A p \in Procs :
        LET r == req[p]
        IN  \A i \in DOMAIN r.all_candidates :
                BuiltByEngine(r, r.all_candidates[i]) =>
                    /\ _validate_query(engine, r.all_candidates[i],
                                       query_type(r.all_candidates[i])).safe
                    /\ i \in DOMAIN r.all_evidence =>
                          /\ ~Rejected(r.all_evidence[i])
                          /\ \E k \in CandidateCalls(p) :
                                http[k].query = r.all_candidates[i]

\* the question holds none of the words FORBIDDEN_QUERY_RE looks for
PlainQuestion(user_query) == ~FORBIDDEN_QUERY_RE(user_query)

\* what holds instead: the candidates built from a question without a
\* forbidden word are accepted and sent
C38_OwnCandidatesOfPlainQuestionsAccepted ==
    \A p \in Procs :
        LET r == req[p]
        IN  PlainQuestion(r.user_query) =>
                \A i \in DOMAIN r.all_candidates :
                    BuiltByEngine(r, r.all_candidates[i]) =>
                        /\ _validate_query(engine, r.all_candidates[i],
                                           query_type(r.all_candidates[i])).safe
                        /\ i \in DOMAIN r.all_evidence =>
                              /\ ~Rejected(r.all_evidence[i])
                              /\ \E k \in CandidateCalls(p) :
                                    http[k].query = r.all_candidates[i]

\* the question `pump with motor`, the planner failing: the fallback query
\* and both lexical candidates were rejected, and the call returned without
\* a single request for a candidate
C38_AllOwnCandidatesRejected ==
    \E p \in Procs :
        LET r == req[p]
        IN  /\ r.pc = "done"
            /\ r.user_query = UQ_With
            /\ r.all_candidates =
                   <<_fallback_query(engine, UQ_With)>> \o LexicalOf(r)
            /\ Len(r.all_candidates) = 3
            /\ \A i \in DOMAIN r.all_evidence :
                  r.all_evidence[i].error = Some("Query contains forbidden operation")
            /\ CandidateCalls(p) = {}

\* ------------------------------------------------------------------------
\* A failed metadata fetch is not cached (C39)
\* ------------------------------------------------------------------------

\* the metadata queries call p has sent to the endpoint
MetadataCalls(p) ==
    {i \in DOMAIN http : http[i].proc = p /\ http[i].source = "schema_metadata"}

\* call p has the text synthesized for a failed fetch as its schema metadata
FetchFailed(r) ==
    /\ r.schema_metadata # None
    /\ r.schema_metadata[1].warning # "absent"

\* both metadata queries of call p were answered
FetchSucceeded(p) ==
    /\ \E i \in MetadataCalls(p) : http[i].query = TXT_MetaClassesQuery /\ http[i].ok
    /\ \E i \in MetadataCalls(p) : http[i].query = TXT_MetaPropertiesQuery /\ http[i].ok

\* a call whose fetch fails goes on with the synthesized text, the error of
\* the endpoint as its warning, and leaves the cache as it is
FailedFetchNotCached(p) ==
    (~FetchFailed(req[p]) /\ FetchFailed(req'[p])) =>
        /\ req[p].pc \in {"run_select_classes", "run_select_properties"}
        /\ req'[p].pc = "get_schema_ttl"
        /\ \E i \in MetadataCalls(p)' :
              /\ ~http'[i].ok
              /\ req'[p].schema_metadata[1] = SchemaWarning(http'[i].error)
        /\ _schema_metadata_cache' = _schema_metadata_cache

\* the cache is written by a call both of whose queries were answered, with
\* the rows they returned
CachedBySuccessfulFetch ==
    _schema_metadata_cache' # _schema_metadata_cache =>
        \E p \in Procs :
            /\ FetchSucceeded(p)
            /\ ~FetchFailed(req[p])
            /\ \E i, j \in MetadataCalls(p) :
                  /\ http[i].ok /\ http[j].ok
                  /\ _schema_metadata_cache' =
                         Some(SchemaPayload(http[i].payload, http[j].payload))

\* a call that finds the cache populated takes its value and sends nothing
CachedMetadataUsed(p) ==
    (/\ req[p].pc = "get_schema_metadata"
     /\ _schema_metadata_cache # None
     /\ req'[p] # req[p]) =>
        /\ req'[p].schema_metadata = _schema_metadata_cache
        /\ req'[p].pc = "get_schema_ttl"
        /\ http' = http

\* of two calls made one after the other, the second sends the metadata
\* queries again when the fetch of the first failed, and sends none when it
\* succeeded
NextCallFetchesAfterFailure ==
    \A p, q \in Procs :
        SequentialPair(p, q) =>
            /\ FetchFailed(req[p]) => MetadataCalls(q) # {}
            /\ ~FetchFailed(req[p]) =>
                  /\ MetadataCalls(q) = {}
                  /\ req[q].schema_metadata = req[p].schema_metadata

\* C39: a failed schema metadata fetch is not cached: the call whose metadata
\* query fails goes on with the synthesized {classes: [], properties: [],
\* warning} text and leaves the cache empty, and the next process call on the
\* engine sends the metadata queries again; only a fetch whose two queries
\* were both answered populates the cache, and a call that finds the cache
\* populated sends no metadata query.
C39_FailedMetadataFetchNotCached ==
    [][/\ \A p \in Procs : FailedFetchNotCached(p) /\ CachedMetadataUsed(p)
       /\ CachedBySuccessfulFetch
       /\ (\E p \in Procs : FetchFailed(req'[p]) /\ ~FetchSucceeded(p)')
              /\ (\A q \in Procs : ~FetchSucceeded(q)')
              => _schema_metadata_cache' = None
       /\ NextCallFetchesAfterFailure']_vars

\* the fetch of the first call failed with HTTP Error 503; the second call
\* sent both metadata queries again, was answered, and populated the cache
C39_Witness ==
    \E p, q \in Procs :
        /\ SequentialPair(p, q)
        /\ req[p].result[1].schema_metadata = SchemaWarning("HTTP Error 503")
        /\ Cardinality(MetadataCalls(q)) = 2
        /\ FetchSucceeded(q)
        /\ _schema_metadata_cache = req[q].schema_metadata
        /\ _schema_metadata_cache # None

\* the fetch of the first call succeeded and the second call, made with the
\* endpoint failing or answering other rows, sent no metadata query
C39_WitnessCached ==
    \E p, q \in Procs :
        /\ SequentialPair(p, q)
        /\ FetchSucceeded(p)
        /\ MetadataCalls(q) = {}
        /\ req[q].result[1].schema_metadata = req[p].result[1].schema_metadata

\* ------------------------------------------------------------------------
\* Stable ranking (C40)
\* ------------------------------------------------------------------------

\* where a record stands in the order the records were produced in
ProducedAt(gathered, record) == CHOOSE i \in DOMAIN gathered : gathered[i] = record

\* a ranks before b: its score is higher, or equal and it was produced earlier
RanksBefore(gathered, a, b) ==
    \/ a.score > b.score
    \/ a.score = b.score /\ ProducedAt(gathered, a) < ProducedAt(gathered, b)

RankOf(gathered, record) ==
    1 + Cardinality({other \in Records(gathered) : RanksBefore(gathered, other, record)})

\* the first k records of the ranking
StableRanking(gathered, k) ==
    [i \in 1..Min(k, Len(gathered)) |->
        CHOOSE record \in Records(gathered) : RankOf(gathered, record) = i]

\* the step in which call p makes a planner call
PlannerCalled(p) == Len(req'[p].prompts) = Len(req[p].prompts) + 1

\* C40: ranking is stable: among the records of equal score the one produced
\* earlier ranks first in the returned evidence and in the packed context, so
\* of the ties at the top_k cut the later-produced records are dropped; the
\* loop context of every planner call is packed from the same ranking of
\* the evidence gathered before it.
C40_RankingIsStable ==
    [][\A p \in Procs :
          /\ \A i, j \in DOMAIN req'[p].all_evidence :
                req'[p].all_evidence[i] = req'[p].all_evidence[j] => i = j
          /\ req'[p].pc = "done" =>
                LET ranking == StableRanking(req'[p].all_evidence, engine.top_k)
                IN  /\ req'[p].result[1].evidence = ranking
                    /\ req'[p].result[1].context = rank_and_pack_context(ranking)
          /\ PlannerCalled(p) =>
                req'[p].prompts[Len(req'[p].prompts)].loop_context =
                    rank_and_pack_context(StableRanking(req[p].all_evidence,
                                                        engine.top_k))]_vars

\* top_k is 2 and the first three records produced, two in iteration 1 and
\* one in iteration 2, have the same score, the highest: the first two are
\* returned in that order and the third is dropped, and the second planner
\* call was given the first two in that order
C40_Witness ==
    \E p \in Procs :
        LET gathered == req[p].all_evidence
            evidence == req[p].result[1].evidence
        IN  /\ req[p].pc = "done"
            /\ engine.top_k = 2
            /\ Len(gathered) = 4
            /\ gathered[1].score = gathered[2].score
            /\ gathered[2].score = gathered[3].score
            /\ gathered[3].score >= gathered[4].score
            /\ evidence = <<gathered[1], gathered[2]>>
            /\ Len(req[p].prompts) = 2
            /\ req[p].prompts[2].loop_context =
                   rank_and_pack_context(<<gathered[1], gathered[2]>>)
            /\ req[p].result[1].context = req[p].prompts[2].loop_context

\* top_k is 1 and the best score was reached by the second record of
\* iteration 1 and again by the first record of iteration 2: the record of
\* iteration 1 is the one returned
C40_WitnessAcrossIterations ==
    \E p \in Procs :
        LET gathered == req[p].all_evidence
        IN  /\ req[p].pc = "done"
            /\ engine.top_k = 1
            /\ Len(gathered) = 4
            /\ gathered[2].score > gathered[1].score
            /\ gathered[3].score = gathered[2].score
            /\ req[p].result[1].evidence = <<gathered[2]>>

====
